---- MODULE Spec2Model ----
(***************************************************************************)
(* A model of the streaming pipeline of ccpa-telegram:                     *)
(*   - the safe-chunking algorithm        (src/src/telegram/chunker.ts)    *)
(*   - the delivery throttler             (src/src/telegram/chunker.ts)    *)
(*   - the event stream reader            (src/src/claude/executor.ts)     *)
(*   - the session token kept per user    (src/src/user/setup.ts and the   *)
(*     message handlers of src/src/bot)                                    *)
(*   - the whitelist and the rate limiter in front of the handlers         *)
(*     (src/src/bot/middleware/auth.ts, src/unnamed/part_004)              *)
(* Texts are sequences of one-character strings.  Lengths the code fixes   *)
(* at 4096 / 500 ms are scaled down so that TLC can enumerate the inputs;  *)
(* every comparison keeps the shape it has in the code.                    *)
(***************************************************************************)
EXTENDS Integers, Sequences, FiniteSets, TLC

VARIABLES
    \* ---- chunkMessage, one call (chunker.ts 42-62)
    text,        \* the argument of chunkMessage
    remaining,   \* `remaining`
    chunks,      \* `chunks`
    splits,      \* history: the splitPoint of every loop iteration
    cpc,         \* position in chunkMessage: "call" | "loop" | "returned"
    \* ---- the delivery throttler, one turn (chunker.ts 107-238)
    now,         \* Date.now(), in ticks
    state,       \* the StreamingResponseState, or NoState before create()
    draft,       \* the draft message on the surface: [text, md, deleted]
    pending,     \* update() calls awaiting the surface's answer to their edit
    calls,       \* history: every updateStreamingResponse call and its edit requests
    finalText,   \* the argument of finalizeStreamingResponse
    fpc,         \* position in create/finalize/sendChunkedResponse
    sendIdx,     \* `i` of sendChunkedResponse's loop
    ops,         \* history: the requests of create/finalize the surface has answered
    \* ---- the event stream reader, one call (executor.ts 28-240)
    pipe,        \* stdout bytes the process has written, not yet delivered
    lines,       \* history: every line the process has written
    reader,      \* the closure's variables (lines 66-70) and the callback log
    proc,        \* the child process: "running" | "failed" | "closed"
    resolved,    \* history: every value passed to resolve()
    notified,    \* history: the "error" / "close" events of the process
    \* ---- the session token of one user (user/setup.ts, bot/handlers, bot/commands)
    store,       \* the content of the user's session.json, or NoFile
    turn,        \* the message handler in progress, or NoTurn
    journal,     \* history: every handler that has completed
    \* ---- the rendering of one update() call at the surface's true limit
    display,     \* [newText, isComplete, payloads, pc] (chunker.ts 165-196)
    \* ---- the middleware in front of the handlers (bot.ts 41-60)
    gate         \* [now, allowed, table, log]: the clock, the whitelist, the
                 \* rateLimitStore, and the history of the updates received

chunkVars == <<text, remaining, chunks, splits, cpc>>

streamVars == <<now, state, draft, pending, calls, finalText, fpc, sendIdx, ops>>

readerVars == <<pipe, lines, reader, proc, resolved, notified>>

sessionVars == <<store, turn, journal>>

vars == <<chunkVars, streamVars, readerVars, sessionVars, display, gate>>

\* what an action of one component leaves alone
nonChunkVars == <<streamVars, readerVars, sessionVars, display, gate>>
nonStreamVars == <<chunkVars, readerVars, sessionVars, display, gate>>
nonReaderVars == <<chunkVars, streamVars, sessionVars, display, gate>>
nonSessionVars == <<chunkVars, streamVars, readerVars, display, gate>>
nonDisplayVars == <<chunkVars, streamVars, readerVars, sessionVars, gate>>
nonGateVars == <<chunkVars, streamVars, readerVars, sessionVars, display>>

----------------------------------------------------------------------------
(* Bounds of the model *)

\* The code's TELEGRAM_MAX_LENGTH is 4096 (chunker.ts line 3); the model
\* scales it down.  Every use compares against it as the code does.
TELEGRAM_MAX_LENGTH == 8

\* Longest text handed to chunkMessage (long enough for three chunks).
MaxTextLen == 16

\* At most this many line-break / space characters in an enumerated text.
MaxSeps == 3

\* The code's STREAMING_UPDATE_INTERVAL_MS is 500 (chunker.ts line 4); the
\* model counts time in ticks and scales the interval down.
STREAMING_UPDATE_INTERVAL_MS == 2

\* The code truncates the display when the text is longer than
\* TELEGRAM_MAX_LENGTH - 50 and then keeps the last TELEGRAM_MAX_LENGTH - 100
\* characters (chunker.ts lines 169, 172); the model scales both margins.
DisplayMargin == 1
TailMargin == 2

\* SpecThrottle (create and update only): the clock stops at MaxTime and at
\* most MaxUpdates update() calls are made.
MaxTime == 5
MaxUpdates == 3

\* SpecStream (a whole turn, finalization included): the same two bounds.
MaxTurnTime == 2
MaxTurnUpdates == 1

\* SpecReader: the process writes at most MaxLines lines to stdout and at
\* most MaxStderr non-blank chunks to stderr.
MaxLines == 3
MaxStderr == 1

\* SpecTools: the process writes at most MaxToolLines lines.
MaxToolLines == 2

\* Handlers (turns and /clear commands) that complete for the one user.
MaxJournal == 3

\* SpecDisplay: candidate texts up to this many characters to either side of
\* the two thresholds of update() (the truncation threshold and the limit).
MaxOver == 2

\* the rate limiter: config.rateLimit.windowMs in ticks, config.rateLimit.max,
\* the last reading of the clock and the number of updates of SpecGate
WindowMs == 2
RateLimitMax == 2
MaxClock == 4
MaxRequests == 4

\* executor.ts line 125: the shell command is shown up to this length.
BashPreviewLength == 50

\* chunker.ts line 3, unscaled: the surface's limit for one message.
TelegramMaxLength == 4096

\* chunker.ts line 169: the margin kept free below the limit before update()
\* truncates, and line 172: the margin by which the kept tail is shorter
\* than the limit.
ReservedMargin == 50
TailReserve == 100

----------------------------------------------------------------------------
(* Characters and strings *)

NL == "\n"
SP == " "

Separators == {NL, SP}

Min(a, b) == IF a <= b THEN a ELSE b
Max(a, b) == IF a >= b THEN a ELSE b

\* String.prototype.slice(from) / slice(0, to) for 0 <= from, to
SliceTo(s, to) == SubSeq(s, 1, Min(to, Len(s)))
SliceFrom(s, from) == SubSeq(s, from + 1, Len(s))

\* String.prototype.lastIndexOf(pat): 0-based index of the last occurrence,
\* -1 when there is none.
lastIndexOf(s, pat) ==
    LET hits == { i \in 0..(Len(s) - Len(pat)) :
                    SubSeq(s, i + 1, i + Len(pat)) = pat }
    IN  IF hits = {} THEN -1
        ELSE CHOOSE i \in hits : \A j \in hits : j <= i

RECURSIVE Concat(_)
\* chunks.join(""): the chunks laid end to end
Concat(ss) == IF ss = <<>> THEN <<>> ELSE Head(ss) \o Concat(Tail(ss))

----------------------------------------------------------------------------
(* The safe-chunking algorithm *)

\* findSafeSplitPoint searching the whole text instead of its first
\* maxLength characters (a slip the size claims must detect).
findSafeSplitPointWholeText(t, maxLength) ==
    IF Len(t) <= maxLength THEN Len(t)
    ELSE LET doubleNewline == lastIndexOf(t, <<NL, NL>>)
             newline == lastIndexOf(t, <<NL>>)
             space == lastIndexOf(t, <<SP>>)
         IN  IF 2 * doubleNewline > maxLength THEN doubleNewline + 2
             ELSE IF 2 * newline > maxLength THEN newline + 1
             ELSE IF 2 * space > maxLength THEN space + 1
             ELSE maxLength

\* findSafeSplitPoint trying the separators in the opposite order: a space
\* first, a paragraph break last
findSafeSplitPointSpaceFirst(t, maxLength) ==
    IF Len(t) <= maxLength THEN Len(t)
    ELSE LET searchText == SliceTo(t, maxLength)
             doubleNewline == lastIndexOf(searchText, <<NL, NL>>)
             newline == lastIndexOf(searchText, <<NL>>)
             space == lastIndexOf(searchText, <<SP>>)
         IN  IF 2 * space > maxLength THEN space + 1
             ELSE IF 2 * newline > maxLength THEN newline + 1
             ELSE IF 2 * doubleNewline > maxLength THEN doubleNewline + 2
             ELSE maxLength

\* findSafeSplitPoint(text, maxLength).  `x > maxLength * 0.5` is 2x > maxLength.
findSafeSplitPoint(t, maxLength) ==
    IF Len(t) <= maxLength THEN Len(t)
    ELSE LET searchText == SliceTo(t, maxLength)
             doubleNewline == lastIndexOf(searchText, <<NL, NL>>)
             newline == lastIndexOf(searchText, <<NL>>)
             space == lastIndexOf(searchText, <<SP>>)
         IN  IF 2 * doubleNewline > maxLength THEN doubleNewline + 2
             ELSE IF 2 * newline > maxLength THEN newline + 1
             ELSE IF 2 * space > maxLength THEN space + 1
             ELSE maxLength

RECURSIVE chunkLoop(_, _)
\* the while loop of chunkMessage (lines 50-59), from `remaining` and `chunks`
chunkLoop(rem, acc) ==
    IF Len(rem) = 0 THEN acc
    ELSE IF Len(rem) <= TELEGRAM_MAX_LENGTH THEN Append(acc, rem)
    ELSE LET splitPoint == findSafeSplitPoint(rem, TELEGRAM_MAX_LENGTH)
         IN  chunkLoop(SliceFrom(rem, splitPoint),
                       Append(acc, SliceTo(rem, splitPoint)))

\* chunkMessage(text), as one function value
chunkMessage(t) ==
    IF Len(t) <= TELEGRAM_MAX_LENGTH THEN <<t>> ELSE chunkLoop(t, <<>>)

----------------------------------------------------------------------------
(* chunkMessage, statement by statement *)

RECURSIVE TextsOf(_, _)
\* every string of length n with at most k separator characters
TextsOf(n, k) ==
    IF n = 0 THEN {<<>>}
    ELSE { <<"a">> \o s : s \in TextsOf(n - 1, k) }
         \cup (IF k = 0 THEN {}
               ELSE { <<c>> \o s : c \in Separators, s \in TextsOf(n - 1, k - 1) })

\* the inputs of chunkMessage: every such string up to the given length
TextsUpTo(maxLen) == UNION { TextsOf(n, MaxSeps) : n \in 0..maxLen }

\* the two UTF-16 code units of a character outside the basic plane (a
\* JavaScript string is a sequence of code units)
HighSurrogate == "hs"
LowSurrogate == "ls"

\* every string of 2..maxLen code units that holds one such character
SurrogateTexts(maxLen) ==
    UNION { { [k \in 1..n |-> IF k = i THEN HighSurrogate
                              ELSE IF k = i + 1 THEN LowSurrogate ELSE "a"] :
                  i \in 1..(n - 1) } : n \in 2..maxLen }

ChunkEntry ==
    /\ text \in TextsUpTo(MaxTextLen) \cup SurrogateTexts(MaxTextLen)
    /\ remaining = <<>>
    /\ chunks = <<>>
    /\ splits = <<>>
    /\ cpc = "call"

\* ChunkCall without the early return of lines 43-45: every text enters the loop
ChunkCallAlwaysLoops ==
    /\ cpc = "call"
    /\ chunks' = <<>>
    /\ remaining' = text
    /\ cpc' = "loop"
    /\ UNCHANGED <<text, splits, nonChunkVars>>

\* lines 43-48: the early return, or the loop's initialisation
ChunkCall ==
    /\ cpc = "call"
    /\ IF Len(text) <= TELEGRAM_MAX_LENGTH
       THEN /\ chunks' = <<text>>
            /\ cpc' = "returned"
            /\ UNCHANGED remaining
       ELSE /\ chunks' = <<>>
            /\ remaining' = text
            /\ cpc' = "loop"
    /\ UNCHANGED <<text, splits, nonChunkVars>>

\* ChunkSplit resuming one character after the split point (a slip that
\* swallows the character after a separator).
ChunkSplitSkipsOne ==
    /\ cpc = "loop"
    /\ Len(remaining) > TELEGRAM_MAX_LENGTH
    /\ LET splitPoint == findSafeSplitPoint(remaining, TELEGRAM_MAX_LENGTH)
       IN  /\ chunks' = Append(chunks, SliceTo(remaining, splitPoint))
           /\ remaining' = SliceFrom(remaining, splitPoint + 1)
           /\ splits' = Append(splits, splitPoint)
    /\ UNCHANGED <<text, cpc, nonChunkVars>>

\* lines 50-59: one iteration of the while loop that does not leave it
ChunkSplit ==
    /\ cpc = "loop"
    /\ Len(remaining) > TELEGRAM_MAX_LENGTH
    /\ LET splitPoint == findSafeSplitPoint(remaining, TELEGRAM_MAX_LENGTH)
       IN  /\ chunks' = Append(chunks, SliceTo(remaining, splitPoint))
           /\ remaining' = SliceFrom(remaining, splitPoint)
           /\ splits' = Append(splits, splitPoint)
    /\ UNCHANGED <<text, cpc, nonChunkVars>>

\* lines 50-54, 61: the last chunk (or an exhausted remainder) and the return
ChunkLast ==
    /\ cpc = "loop"
    /\ Len(remaining) <= TELEGRAM_MAX_LENGTH
    /\ chunks' = IF Len(remaining) > 0 THEN Append(chunks, remaining) ELSE chunks
    /\ cpc' = "returned"
    /\ UNCHANGED <<text, remaining, splits, nonChunkVars>>

\* no call of chunkMessage under way
ChunkIdle ==
    /\ text = <<>>
    /\ remaining = <<>>
    /\ chunks = <<>>
    /\ splits = <<>>
    /\ cpc = "idle"

----------------------------------------------------------------------------
(* The event stream reader: the protocol *)

NoText == <<>>      \* an absent or empty string (both falsy in the code)

NoInput == [file_path |-> NoText, pattern |-> NoText, command |-> NoText,
            query |-> NoText, url |-> NoText]

\* one content block of message.content
Block(type, t, name, input) ==
    [type |-> type, text |-> t, name |-> name, input |-> input]

TextBlock(t) == Block("text", t, NoText, NoInput)
ToolUseBlock(name, input) == Block("tool_use", NoText, name, input)
ToolResultBlock == Block("tool_result", NoText, NoText, NoInput)

\* one event of the stream-json protocol, every field present
Event(type, subtype, sid, content, isError, result, errors) ==
    [type |-> type, subtype |-> subtype, session_id |-> sid, content |-> content,
     is_error |-> isError, result |-> result, errors |-> errors]

InitEvent(sid) == Event("system", "init", sid, <<>>, FALSE, NoText, <<>>)
AssistantEvent(content) == Event("assistant", "", NoText, content, FALSE, NoText, <<>>)
UserEvent(content) == Event("user", "", NoText, content, FALSE, NoText, <<>>)
ResultEvent(isError, result, errors, sid) ==
    Event("result", "", sid, <<>>, isError, result, errors)

NoEvent == Event("", "", NoText, <<>>, FALSE, NoText, <<>>)

\* The bytes of a line.  A JSON line is written as two halves, so that a data
\* delivery can end inside it; "nl" is the line feed; "junk" is a line that
\* is no JSON.
Token(k, e) == [k |-> k, e |-> e]
Newline == Token("nl", NoEvent)
JunkLine == <<Token("junk", NoEvent)>>

\* JSON.stringify(event)
Stringify(e) == <<Token("head", e), Token("tail", e)>>

\* JSON.parse(line) succeeds only on the two halves of one event
Parses(line) ==
    /\ Len(line) = 2
    /\ line[1].k = "head"
    /\ line[2].k = "tail"
    /\ line[1].e = line[2].e

RECURSIVE SplitLines(_, _)
\* chunk.split("\n").filter((line) => line.trim()): `cur` is the piece read
\* so far; empty pieces are dropped
SplitLines(chunk, cur) ==
    IF chunk = <<>> THEN (IF cur = <<>> THEN <<>> ELSE <<cur>>)
    ELSE IF Head(chunk).k = "nl"
         THEN (IF cur = <<>> THEN <<>> ELSE <<cur>>) \o SplitLines(Tail(chunk), <<>>)
         ELSE SplitLines(Tail(chunk), Append(cur, Head(chunk)))

RECURSIVE Join(_, _)
\* errors.join("; ") and the like
Join(ss, sep) ==
    IF ss = <<>> THEN <<>>
    ELSE IF Len(ss) = 1 THEN ss[1]
    ELSE ss[1] \o sep \o Join(Tail(ss), sep)

----------------------------------------------------------------------------
(* The event stream reader: the stdout handler *)

NoResult == [set |-> FALSE]

\* an ExecuteResult; an absent sessionId or error is the empty string
ExecuteResult(success, output, sid, error) ==
    [set |-> TRUE, success |-> success, output |-> output,
     sessionId |-> sid, error |-> error]

\* lines 66-70, with the log of what was read and which callbacks ran
ReaderStart ==
    [stderrOutput |-> <<>>,
     lastResult |-> NoResult,
     currentSessionId |-> NoText,
     accumulatedText |-> NoText,
     isProcessingTools |-> FALSE,
     log |-> <<>>]

Logged(st, k, v) == [st EXCEPT !.log = Append(@, [k |-> k, v |-> v])]

\* ProgressMessage with the file-name search reported by the template of the
\* content search (a slip of copying one branch to the next)
ProgressMessageGlobAsGrep(block) ==
    LET toolName == IF block.name # NoText THEN block.name ELSE <<"unknown">>
        input == block.input
    IN  IF toolName = <<"Read">> /\ input.file_path # NoText
        THEN <<"Reading: ">> \o input.file_path
        ELSE IF toolName \in {<<"Grep">>, <<"Glob">>} /\ input.pattern # NoText
        THEN <<"Searching for: ">> \o input.pattern
        ELSE IF toolName = <<"Bash">> /\ input.command # NoText
        THEN <<"Running: ">> \o SliceTo(input.command, BashPreviewLength)
                 \o (IF Len(input.command) > BashPreviewLength
                     THEN <<"...">> ELSE <<>>)
        ELSE IF toolName = <<"Edit">> /\ input.file_path # NoText
        THEN <<"Editing: ">> \o input.file_path
        ELSE IF toolName = <<"Write">> /\ input.file_path # NoText
        THEN <<"Writing: ">> \o input.file_path
        ELSE IF toolName = <<"WebSearch">> /\ input.query # NoText
        THEN <<"Searching web: ">> \o input.query
        ELSE IF toolName = <<"WebFetch">> /\ input.url # NoText
        THEN <<"Fetching: ">> \o input.url
        ELSE <<"Using ">> \o toolName \o <<"...">>

\* lines 114-135: the progress message of a tool_use block
ProgressMessage(block) ==
    LET toolName == IF block.name # NoText THEN block.name ELSE <<"unknown">>
        input == block.input
    IN  IF toolName = <<"Read">> /\ input.file_path # NoText
        THEN <<"Reading: ">> \o input.file_path
        ELSE IF toolName = <<"Grep">> /\ input.pattern # NoText
        THEN <<"Searching for: ">> \o input.pattern
        ELSE IF toolName = <<"Glob">> /\ input.pattern # NoText
        THEN <<"Finding files: ">> \o input.pattern
        ELSE IF toolName = <<"Bash">> /\ input.command # NoText
        THEN <<"Running: ">> \o SliceTo(input.command, BashPreviewLength)
                 \o (IF Len(input.command) > BashPreviewLength
                     THEN <<"...">> ELSE <<>>)
        ELSE IF toolName = <<"Edit">> /\ input.file_path # NoText
        THEN <<"Editing: ">> \o input.file_path
        ELSE IF toolName = <<"Write">> /\ input.file_path # NoText
        THEN <<"Writing: ">> \o input.file_path
        ELSE IF toolName = <<"WebSearch">> /\ input.query # NoText
        THEN <<"Searching web: ">> \o input.query
        ELSE IF toolName = <<"WebFetch">> /\ input.url # NoText
        THEN <<"Fetching: ">> \o input.url
        ELSE <<"Using ">> \o toolName \o <<"...">>

\* HandleTextBlock appending the block to the accumulated text (the reading
\* of text blocks as true deltas)
HandleTextBlockAppends(st, block) ==
    IF block.text = NoText THEN st
    ELSE LET seen == Logged(st, "text", block.text)
         IN  IF ~st.isProcessingTools
             THEN Logged([seen EXCEPT !.accumulatedText = @ \o block.text],
                         "chunk", st.accumulatedText \o block.text)
             ELSE seen

\* HandleTextBlock without the test of isProcessingTools
HandleTextBlockIgnoresTools(st, block) ==
    IF block.text = NoText THEN st
    ELSE LET seen == Logged(st, "text", block.text)
         IN  IF Len(block.text) > Len(st.accumulatedText)
             THEN Logged([seen EXCEPT !.accumulatedText = block.text],
                         "chunk", block.text)
             ELSE seen

\* HandleTextBlock without the comparison of lengths: every text block read
\* outside a tool window replaces the accumulated text
HandleTextBlockAnyLength(st, block) ==
    IF block.text = NoText THEN st
    ELSE LET seen == Logged(st, "text", block.text)
         IN  IF ~st.isProcessingTools
             THEN Logged([seen EXCEPT !.accumulatedText = block.text],
                         "chunk", block.text)
             ELSE seen

\* lines 95-109: a text block; onTextChunk(newText, accumulatedText)
HandleTextBlock(st, block) ==
    IF block.text = NoText THEN st
    ELSE LET seen == Logged(st, "text", block.text)
         IN  IF Len(block.text) > Len(st.accumulatedText) /\ ~st.isProcessingTools
             THEN Logged([seen EXCEPT !.accumulatedText = block.text],
                         "chunk", block.text)
             ELSE seen

\* lines 112-144: a tool_use block; onProgress(progressMsg)
HandleToolUseBlock(st, block) ==
    Logged(Logged([st EXCEPT !.isProcessingTools = TRUE], "tool_use", block),
           "progress", ProgressMessage(block))

RECURSIVE HandleAssistantBlocks(_, _)
\* lines 93-145: the blocks of an assistant event, in order
HandleAssistantBlocks(st, blocks) ==
    IF blocks = <<>> THEN st
    ELSE LET block == Head(blocks)
             afterText == IF block.type = "text"
                          THEN HandleTextBlock(st, block) ELSE st
             afterTool == IF block.type = "tool_use"
                          THEN HandleToolUseBlock(afterText, block) ELSE afterText
         IN  HandleAssistantBlocks(afterTool, Tail(blocks))

RECURSIVE HandleUserBlocks(_, _)
\* lines 149-163: the blocks of a user event; a tool_result clears the flag
HandleUserBlocks(st, blocks) ==
    IF blocks = <<>> THEN st
    ELSE LET block == Head(blocks)
             after == IF block.type = "tool_result"
                      THEN Logged([st EXCEPT !.isProcessingTools = FALSE],
                                  "tool_result", NoText)
                      ELSE st
         IN  HandleUserBlocks(after, Tail(blocks))

\* HandleResult taking the errors array before the event's own text (as the
\* SDK variant of the executor does)
HandleResultErrorsFirst(st, event) ==
    LET errorMessage ==
            IF event.is_error
            THEN IF Len(event.errors) > 0 THEN Join(event.errors, <<";", SP>>)
                 ELSE event.result
            ELSE NoText
        output == IF event.result # NoText THEN event.result ELSE st.accumulatedText
        sid == IF event.session_id # NoText
               THEN event.session_id ELSE st.currentSessionId
        recorded == ExecuteResult(~event.is_error, output, sid, errorMessage)
    IN  Logged([st EXCEPT !.lastResult = recorded],
               "result", [event |-> event, recorded |-> recorded])

\* HandleResult taking the accumulated text before the event's own text
HandleResultPrefersAccumulated(st, event) ==
    LET errorMessage ==
            IF event.is_error
            THEN IF event.result # NoText THEN event.result
                 ELSE IF Len(event.errors) > 0 THEN Join(event.errors, <<";", SP>>)
                 ELSE NoText
            ELSE NoText
        output == IF st.accumulatedText # NoText
                  THEN st.accumulatedText ELSE event.result
        sid == IF event.session_id # NoText
               THEN event.session_id ELSE st.currentSessionId
        recorded == ExecuteResult(~event.is_error, output, sid, errorMessage)
    IN  Logged([st EXCEPT !.lastResult = recorded],
               "result", [event |-> event, recorded |-> recorded])

\* HandleResult taking the init event's token before the result event's
HandleResultPrefersInitToken(st, event) ==
    LET errorMessage ==
            IF event.is_error
            THEN IF event.result # NoText THEN event.result
                 ELSE IF Len(event.errors) > 0 THEN Join(event.errors, <<";", SP>>)
                 ELSE NoText
            ELSE NoText
        output == IF event.result # NoText THEN event.result ELSE st.accumulatedText
        sid == IF st.currentSessionId # NoText
               THEN st.currentSessionId ELSE event.session_id
        recorded == ExecuteResult(~event.is_error, output, sid, errorMessage)
    IN  Logged([st EXCEPT !.lastResult = recorded],
               "result", [event |-> event, recorded |-> recorded])

\* lines 166-179: the result event
HandleResult(st, event) ==
    LET errorMessage ==
            IF event.is_error
            THEN IF event.result # NoText THEN event.result
                 ELSE IF Len(event.errors) > 0 THEN Join(event.errors, <<";", SP>>)
                 ELSE NoText
            ELSE NoText
        output == IF event.result # NoText THEN event.result ELSE st.accumulatedText
        sid == IF event.session_id # NoText
               THEN event.session_id ELSE st.currentSessionId
        recorded == ExecuteResult(~event.is_error, output, sid, errorMessage)
    IN  Logged([st EXCEPT !.lastResult = recorded],
               "result", [event |-> event, recorded |-> recorded])

\* lines 80-179: one parsed event
HandleEvent(st, event) ==
    LET s1 == IF event.type = "system" /\ event.subtype = "init"
                 /\ event.session_id # NoText
              THEN Logged([st EXCEPT !.currentSessionId = event.session_id],
                          "init", event.session_id)
              ELSE st
        s2 == IF event.type = "assistant"
              THEN HandleAssistantBlocks(s1, event.content) ELSE s1
        s3 == IF event.type = "user"
              THEN HandleUserBlocks(s2, event.content) ELSE s2
    IN  IF event.type = "result" THEN HandleResult(s3, event) ELSE s3

\* lines 78-183: one line; a line that does not parse is ignored
HandleLine(st, line) ==
    IF Parses(line) THEN HandleEvent(st, line[1].e) ELSE st

RECURSIVE HandleLinesStopsAtJunk(_, _)
\* HandleLines with the try around the whole loop: the first line that does
\* not parse ends the processing of the delivery
HandleLinesStopsAtJunk(st, ls) ==
    IF ls = <<>> \/ ~Parses(Head(ls)) THEN st
    ELSE HandleLinesStopsAtJunk(HandleLine(st, Head(ls)), Tail(ls))

RECURSIVE HandleLines(_, _)
\* line 78: the lines of one delivery, in order
HandleLines(st, ls) ==
    IF ls = <<>> THEN st ELSE HandleLines(HandleLine(st, Head(ls)), Tail(ls))

\* lines 72-184: the stdout "data" handler on one delivery
HandleData(st, chunk) == HandleLines(st, SplitLines(chunk, <<>>))

----------------------------------------------------------------------------
(* The event stream reader: the child process and the promise *)

ReaderIdle ==
    /\ pipe = <<>>
    /\ lines = <<>>
    /\ reader = ReaderStart
    /\ proc = "idle"
    /\ resolved = <<>>
    /\ notified = <<>>

\* line 60: the process is spawned, nothing read yet
ReaderSpawned ==
    /\ pipe = <<>>
    /\ lines = <<>>
    /\ reader = ReaderStart
    /\ proc = "running"
    /\ resolved = <<>>
    /\ notified = <<>>

IsWhitespace(c) == c \in {SP, NL}

RECURSIVE TrimStart(_)
TrimStart(s) ==
    IF s # <<>> /\ IsWhitespace(Head(s)) THEN TrimStart(Tail(s)) ELSE s

RECURSIVE TrimEnd(_)
TrimEnd(s) ==
    IF s # <<>> /\ IsWhitespace(s[Len(s)])
    THEN TrimEnd(SubSeq(s, 1, Len(s) - 1)) ELSE s

\* String.prototype.trim()
Trim(s) == TrimEnd(TrimStart(s))

\* the child process writes one line to its stdout
Emit(line) ==
    /\ proc = "running"
    /\ pipe' = pipe \o line \o <<Newline>>
    /\ lines' = Append(lines, line)
    /\ UNCHANGED <<reader, proc, resolved, notified, nonReaderVars>>

\* lines 72-184: a stdout "data" event carrying the next n bytes
StdoutData(n) ==
    /\ n \in 1..Len(pipe)
    /\ reader' = HandleData(reader, SubSeq(pipe, 1, n))
    /\ pipe' = SubSeq(pipe, n + 1, Len(pipe))
    /\ UNCHANGED <<lines, proc, resolved, notified, nonReaderVars>>

\* StderrData settling the call as failed on the first diagnostic output
StderrDataResolves(data) ==
    /\ proc = "running"
    /\ LET chunk == Trim(data)
       IN  /\ reader' = IF chunk # <<>>
                        THEN [reader EXCEPT !.stderrOutput = @ \o chunk \o <<NL>>]
                        ELSE reader
           /\ resolved' = IF chunk # <<>>
                          THEN Append(resolved,
                                   ExecuteResult(FALSE, NoText, NoText, chunk))
                          ELSE resolved
    /\ UNCHANGED <<pipe, lines, proc, notified, nonReaderVars>>

\* lines 186-192: a stderr "data" event
StderrData(data) ==
    /\ proc = "running"
    /\ LET chunk == Trim(data)
       IN  reader' = IF chunk # <<>>
                     THEN [reader EXCEPT !.stderrOutput = @ \o chunk \o <<NL>>]
                     ELSE reader
    /\ UNCHANGED <<pipe, lines, proc, resolved, notified, nonReaderVars>>

\* ProcClose resolving with the accumulated text as it is, empty or not
ProcCloseRawOutput(code) ==
    /\ proc \in {"running", "failed"}
    /\ pipe = <<>>
    /\ proc' = "closed"
    /\ resolved' = Append(resolved,
          IF reader.lastResult.set THEN reader.lastResult
          ELSE IF code = 0
          THEN ExecuteResult(TRUE, reader.accumulatedText,
                   reader.currentSessionId, NoText)
          ELSE ExecuteResult(FALSE, reader.accumulatedText, NoText,
                   IF Trim(reader.stderrOutput) # <<>>
                   THEN Trim(reader.stderrOutput)
                   ELSE <<"Claude exited with code ", ToString(code)>>))
    /\ notified' = Append(notified, [ev |-> "close", code |-> code])
    /\ UNCHANGED <<pipe, lines, reader, nonReaderVars>>

\* ProcClose reporting the exit code whatever was read from stderr
ProcCloseExitMessageOnly(code) ==
    /\ proc \in {"running", "failed"}
    /\ pipe = <<>>
    /\ proc' = "closed"
    /\ resolved' = Append(resolved,
          IF reader.lastResult.set THEN reader.lastResult
          ELSE IF code = 0
          THEN ExecuteResult(TRUE,
                   IF reader.accumulatedText # NoText
                   THEN reader.accumulatedText ELSE <<"No response received">>,
                   reader.currentSessionId, NoText)
          ELSE ExecuteResult(FALSE, reader.accumulatedText, NoText,
                   <<"Claude exited with code ", ToString(code)>>))
    /\ notified' = Append(notified, [ev |-> "close", code |-> code])
    /\ UNCHANGED <<pipe, lines, reader, nonReaderVars>>

\* lines 194-229: the "close" event, once the process has ended and its
\* output has been read to the end
ProcClose(code) ==
    /\ proc \in {"running", "failed"}
    /\ pipe = <<>>
    /\ proc' = "closed"
    /\ resolved' = Append(resolved,
          IF reader.lastResult.set THEN reader.lastResult
          ELSE IF code = 0
          THEN ExecuteResult(TRUE,
                   IF reader.accumulatedText # NoText
                   THEN reader.accumulatedText ELSE <<"No response received">>,
                   reader.currentSessionId, NoText)
          ELSE ExecuteResult(FALSE, reader.accumulatedText, NoText,
                   IF Trim(reader.stderrOutput) # <<>>
                   THEN Trim(reader.stderrOutput)
                   ELSE <<"Claude exited with code ", ToString(code)>>))
    /\ notified' = Append(notified, [ev |-> "close", code |-> code])
    /\ UNCHANGED <<pipe, lines, reader, nonReaderVars>>

\* ProcError without the resolve() call: the call is left to "close"
ProcErrorUnhandled ==
    /\ proc = "running"
    /\ lines = <<>>
    /\ reader.stderrOutput = <<>>
    /\ proc' = "failed"
    /\ notified' = Append(notified, [ev |-> "error", code |-> -2])
    /\ UNCHANGED <<pipe, lines, reader, resolved, nonReaderVars>>

\* lines 231-238: the "error" event of a process that could not be started
ProcError ==
    /\ proc = "running"
    /\ lines = <<>>
    /\ reader.stderrOutput = <<>>
    /\ proc' = "failed"
    /\ resolved' = Append(resolved,
          ExecuteResult(FALSE, NoText, NoText,
                        <<"Failed to start ", "claude", ": ", "spawn ENOENT">>))
    /\ notified' = Append(notified, [ev |-> "error", code |-> -2])
    /\ UNCHANGED <<pipe, lines, reader, nonReaderVars>>

\* exit codes: success, a failure, and the code of a failed spawn
ExitCodes(p) == IF p = "failed" THEN {-2} ELSE {0, 1}

\* new Promise((resolve) => ...), line 59: the promise takes the value of the
\* first resolve() call; later calls have no effect
PromiseValue == resolved[1]

StderrChunks == {<<SP>>, <<"E">>}

ReaderTexts == {<<"a">>, <<"a", "b">>, <<"c", "d">>}

ReadTool == ToolUseBlock(<<"Read">>, [NoInput EXCEPT !.file_path = <<"f">>])

\* the lines the process of SpecReader may write
ReaderEvents ==
    {InitEvent(<<"s1">>)}
    \cup {AssistantEvent(<<TextBlock(t)>>) : t \in ReaderTexts}
    \cup {AssistantEvent(<<ReadTool>>),
          AssistantEvent(<<ReadTool, TextBlock(<<"a", "b", "c">>)>>),
          UserEvent(<<ToolResultBlock>>),
          ResultEvent(FALSE, <<"a", "b">>, <<>>, <<"s2">>)}

ReaderLines == { Stringify(e) : e \in ReaderEvents } \cup {JunkLine}

\* the errors array ["a", "b"]
TwoErrors == << <<"a">>, <<"b">> >>

\* the result events of SpecResult: success and failure, with and without
\* their own text, token and errors array
ResultEvents ==
    {ResultEvent(FALSE, <<"o", "k">>, <<>>, <<"s2">>),
     ResultEvent(FALSE, NoText, <<>>, NoText),
     ResultEvent(TRUE, NoText, TwoErrors, NoText),
     ResultEvent(TRUE, <<"x">>, TwoErrors, <<"s2">>)}

\* the lines the process of SpecResult may write
ResultLines ==
    { Stringify(e) : e \in ResultEvents
                         \cup {InitEvent(<<"s1">>),
                               AssistantEvent(<<TextBlock(<<"a">>)>>),
                               AssistantEvent(<<ReadTool>>)} }

\* the field of block.input each recognized tool is reported with
ToolField ==
    [Read |-> "file_path", Grep |-> "pattern", Glob |-> "pattern",
     Bash |-> "command", Edit |-> "file_path", Write |-> "file_path",
     WebSearch |-> "query", WebFetch |-> "url"]

\* the tool_use blocks of SpecTools: every recognized tool with its field,
\* without any input and with another tool's field only; a shell command
\* one character longer than the preview; a tool the code does not know; a
\* block without a name
ToolBlocks ==
    { ToolUseBlock(<<name>>, [NoInput EXCEPT ![ToolField[name]] = <<"v">>]) :
          name \in DOMAIN ToolField }
    \cup { ToolUseBlock(<<name>>, NoInput) : name \in DOMAIN ToolField }
    \cup { ToolUseBlock(<<"Read">>, [NoInput EXCEPT !.pattern = <<"v">>]),
           ToolUseBlock(<<"Grep">>, [NoInput EXCEPT !.file_path = <<"v">>]),
           ToolUseBlock(<<"Bash">>,
               [NoInput EXCEPT !.command = [i \in 1..(BashPreviewLength + 1) |-> "c"]]),
           ToolUseBlock(<<"Task">>, [NoInput EXCEPT !.command = <<"v">>]),
           ToolUseBlock(NoText, NoInput) }

\* the lines the process of SpecTools may write: one tool_use block each
ToolLines == { Stringify(AssistantEvent(<<b>>)) : b \in ToolBlocks }

----------------------------------------------------------------------------
(* The session token of a user: session.json, the handlers, /clear *)

NoFile == <<>>      \* no session.json (readFile throws)

\* setup.ts 55-56: JSON.stringify({ currentSessionId: sessionId })
SessionFile(sessionId) == <<"{", "currentSessionId:">> \o sessionId \o <<"}">>

\* setup.ts 62-71: read and parse the file; null (NoText) when there is no
\* file, it is no JSON, or the token in it is empty
getSessionId(file) ==
    IF Len(file) >= 3 /\ file[1] = "{" /\ file[2] = "currentSessionId:"
                      /\ file[Len(file)] = "}"
    THEN SubSeq(file, 3, Len(file) - 1)
    ELSE NoText

\* executor.ts 39-50: the arguments of the agent process
ResumeArgs(sessionId) ==
    <<"-p", "prompt", "--output-format", "stream-json", "--verbose">>
        \o (IF sessionId # NoText THEN <<"--resume">> \o sessionId ELSE <<>>)

\* the text of a JSON object with a result and a session_id field
JsonObject(result, sessionId) == <<"{", result, sessionId, "}">>

\* JSON.parse(result.output) of parser.ts 23: it succeeds on JSON text only
JsonParse(output) ==
    IF Len(output) = 4 /\ output[1] = "{" /\ output[4] = "}"
    THEN [ok |-> TRUE, result |-> <<output[2]>>, session_id |-> <<output[3]>>]
    ELSE [ok |-> FALSE, result |-> NoText, session_id |-> NoText]

\* parser.ts 14-70, for outputs that are plain text or a JSON object with a
\* result field
parseClaudeOutput(result) ==
    IF ~result.success
    THEN [text |-> IF result.error # NoText THEN result.error
                   ELSE <<"An unknown error occurred">>,
          sessionId |-> NoText]
    ELSE LET parsed == JsonParse(result.output)
         IN  IF parsed.ok
             THEN [text |-> IF parsed.result # NoText THEN parsed.result
                            ELSE <<"No response received">>,
                   sessionId |-> parsed.session_id]
             ELSE [text |-> IF result.output # NoText THEN result.output
                            ELSE <<"No response received">>,
                   sessionId |-> NoText]

HandlerKinds == {"text", "photo", "document", "voice"}

\* the token a handler passes to saveSessionId, or NoText when it saves
\* nothing: text.ts 206-207 takes it from the executor's result; photo.ts
\* 116-119, voice.ts 194-197 and the document handler take it from
\* parseClaudeOutput(result)
TokenToSave(kind, result) ==
    IF kind = "text" THEN result.sessionId
    ELSE parseClaudeOutput(result).sessionId

NoTurn == [active |-> FALSE]

\* one completed handler
Entry(op, kind, args, result, saved, ok) ==
    [op |-> op, kind |-> kind, args |-> args, result |-> result,
     saved |-> saved, ok |-> ok]

SessionIdle ==
    /\ store = NoFile
    /\ turn = NoTurn
    /\ journal = <<>>

\* a user without a session, or with the token of an earlier conversation
SessionStart ==
    /\ store \in {NoFile, SessionFile(<<"s0">>)}
    /\ turn = NoTurn
    /\ journal = <<>>

\* a message handler up to its await of the executor (text.ts 148-200):
\* getSessionId, then the agent is started with or without --resume
TurnBegin(kind) ==
    /\ ~turn.active
    /\ turn' = [active |-> TRUE, kind |-> kind,
                args |-> ResumeArgs(getSessionId(store))]
    /\ UNCHANGED <<store, journal, nonSessionVars>>

\* the text a handler hands to finalizeStreamingResponse: text.ts 211-213
\* takes it from the executor's result, the other handlers from
\* parseClaudeOutput(result) (photo.ts 116-123, voice.ts 194-201)
ResponseText(kind, result) ==
    IF kind = "text"
    THEN IF result.success THEN result.output
         ELSE IF result.error # NoText THEN result.error
         ELSE <<"An error occurred">>
    ELSE parseClaudeOutput(result).text

\* the executor resolves, the handler saves the token (text.ts 206-209;
\* writeFile succeeds) and finalizes the response (text.ts 211-216)
TurnEnd(result) ==
    /\ turn.active
    /\ LET token == TokenToSave(turn.kind, result)
       IN  /\ store' = IF token # NoText THEN SessionFile(token) ELSE store
           /\ journal' = Append(journal,
                  Entry("turn", turn.kind, turn.args, result, token, TRUE)
                      @@ [delivery |-> [via |-> "finalize",
                                       text |-> ResponseText(turn.kind, result)]])
    /\ turn' = NoTurn
    /\ UNCHANGED nonSessionVars

\* the executor resolves with a token and the writeFile of saveSessionId
\* (setup.ts 56) is rejected: the await of text.ts 207 throws inside the try
\* of line 139, lines 211-223 are skipped, and the catch of lines 224-229
\* replies with the error's message
TurnEndSaveFailed(result) ==
    /\ turn.active
    /\ TokenToSave(turn.kind, result) # NoText
    /\ journal' = Append(journal,
           Entry("turn", turn.kind, turn.args, result, NoText, FALSE)
               @@ [delivery |-> [via |-> "reply",
                                text |-> <<"An error occurred: ", "ENOENT">>]])
    /\ turn' = NoTurn
    /\ UNCHANGED <<store, nonSessionVars>>

\* Clear that reports success but leaves session.json in place
ClearKeepsSession(ok) ==
    /\ ~turn.active
    /\ UNCHANGED store
    /\ journal' = Append(journal, Entry("clear", "", <<>>, NoResult, NoText, ok))
    /\ UNCHANGED <<turn, nonSessionVars>>

\* clearHandler (clear.ts 6-25) with clearUserData (setup.ts 37-41): the
\* user's directory is removed, or rm throws and the failure is reported.
\* Updates are handled one at a time, so no turn is in progress.
Clear(ok) ==
    /\ ~turn.active
    /\ store' = IF ok THEN NoFile ELSE store
    /\ journal' = Append(journal, Entry("clear", "", <<>>, NoResult, NoText, ok))
    /\ UNCHANGED <<turn, nonSessionVars>>

\* results the executor may resolve with: with and without a token, a
\* failure, and an output that happens to be JSON text
TurnResults ==
    {ExecuteResult(TRUE, <<"o", "k">>, <<"s2">>, NoText),
     ExecuteResult(TRUE, <<"o", "k">>, NoText, NoText),
     ExecuteResult(FALSE, NoText, <<"s2">>, <<"x">>),
     ExecuteResult(TRUE, JsonObject("r", "s9"), <<"s3">>, NoText)}

----------------------------------------------------------------------------
(* The messaging surface and the delivery throttler *)

CURSOR == "|"    \* stands for the one-character block cursor of line 178

\* the characters of /[_*`]/; the backquote is written as a token
BACKQUOTE == "bq"
MarkupChars == {"_", "*", BACKQUOTE}

RECURSIVE Rep(_, _)
Rep(c, n) == IF n <= 0 THEN <<>> ELSE <<c>> \o Rep(c, n - 1)

\* "_..._"
Placeholder == <<"_", ".", ".", ".", "_">>

\* "_(streaming...)_\n\n"
StreamingPrefix ==
    <<"_", "(", "s", "t", "r", "e", "a", "m", "i", "n", "g", ".", ".", ".",
      ")", "_", NL, NL>>

\* "\n\n_(continued...)_"
ContinuedSuffix ==
    <<NL, NL, "_", "(", "c", "o", "n", "t", "i", "n", "u", "e", "d", ".", ".",
      ".", ")", "_">>

\* "_(part N)_\n\n"; the part number is one token
PartPrefix(n) == <<"_", "(", "p", "a", "r", "t", SP, n, ")", "_", NL, NL>>

\* "Error sending message part N"; the whole notice is one token pair
ErrorNotice(n) == <<"Error sending message part", n>>

\* String.prototype.slice(-n), n > 0
SliceLast(s, n) == SubSeq(s, Max(Len(s) - n, 0) + 1, Len(s))

endsWith(s, c) == Len(s) > 0 /\ s[Len(s)] = c

\* displayText.replace(/[_*bq]/g, ""): every markup character removed
StripMarkup(s) == SelectSeq(s, LAMBDA c : c \notin MarkupChars)

NoState == [created |-> FALSE]

StreamIdle ==
    /\ now = 0
    /\ state = NoState
    /\ draft = [text |-> <<>>, md |-> FALSE, deleted |-> TRUE]
    /\ pending = {}
    /\ calls = <<>>
    /\ finalText = <<>>
    /\ fpc = "idle"
    /\ sendIdx = 0
    /\ ops = <<>>

\* the surface's record of one answered request
Op(by, op, t, md, ok) == [by |-> by, op |-> op, text |-> t, md |-> md, ok |-> ok]

\* time passes; the clock is read only by update(), so it is advanced only
\* while updates can still arrive
Tick ==
    /\ fpc = "streaming"
    /\ now' = now + 1
    /\ UNCHANGED <<state, draft, pending, calls, finalText, fpc, sendIdx, ops, nonStreamVars>>

\* createStreamingResponse (lines 122-137): no chat, a rejected reply (the
\* await throws), or the new state
Create(hasChat, ok) ==
    /\ fpc = "idle"
    /\ IF ~hasChat
       THEN /\ fpc' = "nochat"
            /\ UNCHANGED <<state, draft, ops>>
       ELSE /\ ops' = Append(ops, Op("create", "send", Placeholder, TRUE, ok))
            /\ IF ok
               THEN /\ draft' = [text |-> Placeholder, md |-> TRUE, deleted |-> FALSE]
                    /\ state' = [created |-> TRUE,
                                 currentText |-> <<>>,
                                 lastUpdateTime |-> now,
                                 isComplete |-> FALSE,
                                 sentChunks |-> 0]
                    /\ fpc' = "streaming"
               ELSE /\ fpc' = "raised"
                    /\ UNCHANGED <<state, draft>>
    /\ UNCHANGED <<now, pending, calls, finalText, sendIdx, nonStreamVars>>

\* line 153: the throttle test
Throttled(forceUpdate, timeSinceLastUpdate) ==
    ~forceUpdate /\ timeSinceLastUpdate < STREAMING_UPDATE_INTERVAL_MS

\* lines 162-163 without the timestamp (a slip the throttle claims must detect)
RecordUpdateNoTimestamp(st, newText, t) ==
    [st EXCEPT !.currentText = newText]

\* lines 162-163: what update() records before it renders
RecordUpdate(st, newText, t) ==
    [st EXCEPT !.currentText = newText, !.lastUpdateTime = t]

\* lines 168-179: the text update() renders
DisplayText(st, newText) ==
    LET shown == IF Len(newText) > TELEGRAM_MAX_LENGTH - DisplayMargin
                 THEN StreamingPrefix
                      \o SliceLast(newText, TELEGRAM_MAX_LENGTH - TailMargin)
                 ELSE newText
    IN  IF ~st.isComplete /\ ~endsWith(shown, "_")
        THEN shown \o <<SP, CURSOR>>
        ELSE shown

\* updateStreamingResponse up to its first await (lines 149-182): the two
\* early returns, or the state update and the Markdown edit request
Update(newText, forceUpdate) ==
    /\ fpc = "streaming"
    /\ LET timeSinceLastUpdate == now - state.lastUpdateTime
           id == Len(calls) + 1
           call == [time |-> now, text |-> newText, force |-> forceUpdate]
       IN  IF Throttled(forceUpdate, timeSinceLastUpdate)
              \/ newText = state.currentText
           THEN /\ calls' = Append(calls, call @@ [edited |-> FALSE, ret |-> "false",
                                                    tries |-> <<>>])
                /\ UNCHANGED <<state, pending>>
           ELSE /\ state' = RecordUpdate(state, newText, now)
                /\ pending' = pending \cup
                       {[id |-> id, text |-> DisplayText(state', newText), md |-> TRUE]}
                /\ calls' = Append(calls, call @@ [edited |-> TRUE, ret |-> "pending",
                                                    tries |-> <<>>])
    /\ UNCHANGED <<now, draft, finalText, fpc, sendIdx, ops, nonStreamVars>>

\* the answers the surface may give to an edit or a delete of the draft: a
\* deleted message can only be refused
Answers == IF draft.deleted THEN {FALSE} ELSE {TRUE, FALSE}

\* one edit request of an update() call and the surface's answer to it
Try(p, ok) == [text |-> p.text, md |-> p.md, ok |-> ok]

\* UpdateAnswered repeating the rejected Markdown request unchanged
UpdateAnsweredRetriesMarkdown(p, ok) ==
    /\ p \in pending
    /\ ok \in Answers
    /\ IF ok
       THEN /\ draft' = [draft EXCEPT !.text = p.text, !.md = p.md]
            /\ pending' = pending \ {p}
            /\ calls' = [calls EXCEPT ![p.id].ret = "true",
                                      ![p.id].tries = Append(@, Try(p, ok))]
       ELSE /\ UNCHANGED draft
            /\ IF Len(calls[p.id].tries) = 0
               THEN /\ UNCHANGED pending
                    /\ calls' = [calls EXCEPT ![p.id].tries = Append(@, Try(p, ok))]
               ELSE /\ pending' = pending \ {p}
                    /\ calls' = [calls EXCEPT ![p.id].ret = "false",
                                              ![p.id].tries = Append(@, Try(p, ok))]
    /\ UNCHANGED <<now, state, finalText, fpc, sendIdx, ops, nonStreamVars>>

\* the surface answers the edit of one update() call (lines 181-196): the
\* Markdown attempt, then the attempt without markup, then giving up
UpdateAnswered(p, ok) ==
    /\ p \in pending
    /\ ok \in Answers
    /\ IF ok
       THEN /\ draft' = [draft EXCEPT !.text = p.text, !.md = p.md]
            /\ pending' = pending \ {p}
            /\ calls' = [calls EXCEPT ![p.id].ret = "true",
                                      ![p.id].tries = Append(@, Try(p, ok))]
       ELSE /\ UNCHANGED draft
            /\ IF p.md
               THEN /\ pending' = (pending \ {p}) \cup
                          {[p EXCEPT !.text = StripMarkup(p.text), !.md = FALSE]}
                    /\ calls' = [calls EXCEPT ![p.id].tries = Append(@, Try(p, ok))]
               ELSE /\ pending' = pending \ {p}
                    /\ calls' = [calls EXCEPT ![p.id].ret = "false",
                                              ![p.id].tries = Append(@, Try(p, ok))]
    /\ UNCHANGED <<now, state, finalText, fpc, sendIdx, ops, nonStreamVars>>

\* the inputs of the throttler's operations
UpdateTexts ==
    { <<"a">>, <<"a", "_">>, Rep("a", TELEGRAM_MAX_LENGTH - 1) \o <<"b">> }

OneChunkText == <<"a", "*", "b">>
TwoChunkText == Rep("a", TELEGRAM_MAX_LENGTH) \o <<"b">>
ThreeChunkText ==
    Rep("a", TELEGRAM_MAX_LENGTH - 2) \o <<SP>>
        \o Rep("b", TELEGRAM_MAX_LENGTH) \o <<"c", "c">>

FinalTexts == {OneChunkText, TwoChunkText, ThreeChunkText}

\* sendChunkedResponse, lines 76-86: the chunk with its annotations
MessageText(cs, i) ==
    IF Len(cs) > 1
    THEN IF i = 0 THEN cs[i + 1] \o ContinuedSuffix
         ELSE IF i < Len(cs) - 1
              THEN PartPrefix(ToString(i + 1)) \o cs[i + 1] \o ContinuedSuffix
              ELSE PartPrefix(ToString(i + 1)) \o cs[i + 1]
    ELSE cs[i + 1]

\* the chunks sendChunkedResponse works through (line 71)
SendChunks == chunkMessage(finalText)

\* lines 100-104 and the loop's exit: the pacing delay, or the return
AfterChunk == IF sendIdx < Len(SendChunks) - 1 THEN "delay" ELSE "done"

\* finalizeStreamingResponse, lines 208-213: record the final text, chunk
\* it, and choose the in-place edit or the delete-and-send path
Finalize(ft) ==
    /\ fpc = "streaming"
    /\ finalText' = ft
    /\ state' = [state EXCEPT !.isComplete = TRUE, !.currentText = ft]
    /\ fpc' = IF Len(chunkMessage(ft)) = 1 THEN "edit_md" ELSE "delete"
    /\ UNCHANGED <<now, draft, pending, calls, sendIdx, ops, nonStreamVars>>

\* FinalEditMarkdown rendering the final text as update() renders a text,
\* cursor included (a slip the in-place claim must detect)
FinalEditMarkdownAsUpdate(ok) ==
    /\ fpc = "edit_md"
    /\ ok \in Answers
    /\ LET shown == DisplayText([state EXCEPT !.isComplete = FALSE], finalText)
       IN  /\ ops' = Append(ops, Op("finalize", "edit", shown, TRUE, ok))
           /\ IF ok
              THEN /\ draft' = [draft EXCEPT !.text = shown, !.md = TRUE]
                   /\ fpc' = "done"
              ELSE /\ fpc' = "edit_plain"
                   /\ UNCHANGED draft
    /\ UNCHANGED <<now, state, pending, calls, finalText, sendIdx, nonStreamVars>>

\* lines 215-218: the in-place edit with Markdown
FinalEditMarkdown(ok) ==
    /\ fpc = "edit_md"
    /\ ok \in Answers
    /\ ops' = Append(ops, Op("finalize", "edit", finalText, TRUE, ok))
    /\ IF ok
       THEN /\ draft' = [draft EXCEPT !.text = finalText, !.md = TRUE]
            /\ fpc' = "done"
       ELSE /\ fpc' = "edit_plain"
            /\ UNCHANGED draft
    /\ UNCHANGED <<now, state, pending, calls, finalText, sendIdx, nonStreamVars>>

\* FinalEditPlain giving up when the second edit is rejected as well
FinalEditPlainGivesUp(ok) ==
    /\ fpc = "edit_plain"
    /\ ok \in Answers
    /\ ops' = Append(ops, Op("finalize", "edit", finalText, FALSE, ok))
    /\ draft' = IF ok THEN [draft EXCEPT !.text = finalText, !.md = FALSE] ELSE draft
    /\ fpc' = "done"
    /\ UNCHANGED <<now, state, pending, calls, finalText, sendIdx, nonStreamVars>>

\* lines 219-226: the in-place edit without a parse mode; when it fails too,
\* sendChunkedResponse(ctx, finalText) is entered
FinalEditPlain(ok) ==
    /\ fpc = "edit_plain"
    /\ ok \in Answers
    /\ ops' = Append(ops, Op("finalize", "edit", finalText, FALSE, ok))
    /\ IF ok
       THEN /\ draft' = [draft EXCEPT !.text = finalText, !.md = FALSE]
            /\ fpc' = "done"
            /\ UNCHANGED sendIdx
       ELSE /\ fpc' = "send_md"
            /\ sendIdx' = 0
            /\ UNCHANGED draft
    /\ UNCHANGED <<now, state, pending, calls, finalText, nonStreamVars>>

\* FinalDelete letting a rejected delete end finalize by an exception
FinalDeleteFatal(ok) ==
    /\ fpc = "delete"
    /\ ok \in Answers
    /\ ops' = Append(ops, Op("finalize", "delete", <<>>, FALSE, ok))
    /\ draft' = IF ok THEN [draft EXCEPT !.deleted = TRUE] ELSE draft
    /\ fpc' = IF ok THEN "send_md" ELSE "raised"
    /\ sendIdx' = 0
    /\ UNCHANGED <<now, state, pending, calls, finalText, nonStreamVars>>

\* lines 230-236: delete the draft, ignore a failure, enter sendChunkedResponse
FinalDelete(ok) ==
    /\ fpc = "delete"
    /\ ok \in Answers
    /\ ops' = Append(ops, Op("finalize", "delete", <<>>, FALSE, ok))
    /\ draft' = IF ok THEN [draft EXCEPT !.deleted = TRUE] ELSE draft
    /\ fpc' = "send_md"
    /\ sendIdx' = 0
    /\ UNCHANGED <<now, state, pending, calls, finalText, nonStreamVars>>

\* SendMarkdown sending the bare chunk (a slip the annotation claim must detect)
SendMarkdownBare(ok) ==
    /\ fpc = "send_md"
    /\ ops' = Append(ops, Op("finalize", "send", SendChunks[sendIdx + 1], TRUE, ok))
    /\ fpc' = IF ok THEN AfterChunk ELSE "send_plain"
    /\ UNCHANGED <<now, state, draft, pending, calls, finalText, sendIdx, nonStreamVars>>

\* SendMarkdown going on to the next chunk without the pacing delay
SendMarkdownNoPause(ok) ==
    /\ fpc = "send_md"
    /\ ops' = Append(ops, Op("finalize", "send",
                             MessageText(SendChunks, sendIdx), TRUE, ok))
    /\ IF ok /\ sendIdx < Len(SendChunks) - 1
       THEN /\ sendIdx' = sendIdx + 1
            /\ fpc' = "send_md"
       ELSE /\ fpc' = IF ok THEN AfterChunk ELSE "send_plain"
            /\ UNCHANGED sendIdx
    /\ UNCHANGED <<now, state, draft, pending, calls, finalText, nonStreamVars>>

\* lines 88-89: reply with the annotated chunk, parse_mode Markdown
SendMarkdown(ok) ==
    /\ fpc = "send_md"
    /\ ops' = Append(ops, Op("finalize", "send",
                             MessageText(SendChunks, sendIdx), TRUE, ok))
    /\ fpc' = IF ok THEN AfterChunk ELSE "send_plain"
    /\ UNCHANGED <<now, state, draft, pending, calls, finalText, sendIdx, nonStreamVars>>

\* lines 90-93: reply with the bare chunk, no parse mode
SendPlain(ok) ==
    /\ fpc = "send_plain"
    /\ ops' = Append(ops, Op("finalize", "send", SendChunks[sendIdx + 1], FALSE, ok))
    /\ fpc' = IF ok THEN AfterChunk ELSE "send_err"
    /\ UNCHANGED <<now, state, draft, pending, calls, finalText, sendIdx, nonStreamVars>>

\* lines 94-97: reply with the error notice; this await is in no try block,
\* so a rejection leaves sendChunkedResponse by an exception
SendError(ok) ==
    /\ fpc = "send_err"
    /\ ops' = Append(ops, Op("finalize", "send",
                             ErrorNotice(ToString(sendIdx + 1)), FALSE, ok))
    /\ fpc' = IF ok THEN AfterChunk ELSE "raised"
    /\ UNCHANGED <<now, state, draft, pending, calls, finalText, sendIdx, nonStreamVars>>

\* lines 100-103 and the loop's i++: the pacing delay between two chunks,
\* logged when its timer has fired
Pace ==
    /\ fpc = "delay"
    /\ sendIdx' = sendIdx + 1
    /\ fpc' = "send_md"
    /\ ops' = Append(ops, Op("finalize", "delay", <<>>, FALSE, TRUE))
    /\ UNCHANGED <<now, state, draft, pending, calls, finalText, nonStreamVars>>

----------------------------------------------------------------------------
(* The rendering of update() at the surface's true limit *)

\* a text of n characters whose content depends on the position, ending in
\* the character `last`
TextOfLength(n, last) ==
    [i \in 1..n |-> IF i = n THEN last
                    ELSE <<"0", "1", "2", "3", "4", "5", "6">>[(i % 7) + 1]]

\* displayText taking the head of the candidate instead of its tail
displayTextKeepsHead(isComplete, newText) ==
    LET shown == IF Len(newText) > TelegramMaxLength - ReservedMargin
                 THEN StreamingPrefix
                      \o SliceTo(newText, TelegramMaxLength - TailReserve)
                 ELSE newText
    IN  IF ~isComplete /\ ~endsWith(shown, "_")
        THEN shown \o <<SP, CURSOR>>
        ELSE shown

\* lines 168-179 with the numbers of the code: `displayText` as it is when
\* the edit is issued
displayText(isComplete, newText) ==
    LET shown == IF Len(newText) > TelegramMaxLength - ReservedMargin
                 THEN StreamingPrefix
                      \o SliceLast(newText, TelegramMaxLength - TailReserve)
                 ELSE newText
    IN  IF ~isComplete /\ ~endsWith(shown, "_")
        THEN shown \o <<SP, CURSOR>>
        ELSE shown

NoDisplay == [newText |-> <<>>, isComplete |-> FALSE, payloads |-> <<>>, pc |-> "idle"]

DisplayIdle == display = NoDisplay

\* the candidates: the empty text, a short one, lengths to either side of
\* the truncation threshold and of the limit, and twice the limit; each
\* ending in a plain character, in "_" and in "*"
CandidateLengths ==
    {0, 1, 2 * TelegramMaxLength}
    \cup { TelegramMaxLength - ReservedMargin + d : d \in (0 - MaxOver)..MaxOver }
    \cup { TelegramMaxLength + d : d \in (0 - MaxOver)..MaxOver }

CandidateTexts ==
    { TextOfLength(n, last) : n \in CandidateLengths, last \in {"a", "_", "*"} }

\* an update() call that is neither throttled nor unchanged, at line 165
DisplayEntry ==
    \E newText \in CandidateTexts, isComplete \in BOOLEAN :
        display = [newText |-> newText, isComplete |-> isComplete,
                   payloads |-> <<>>, pc |-> "render"]

\* lines 168-184: render and issue the Markdown edit
RenderEdit ==
    /\ display.pc = "render"
    /\ display' = [display EXCEPT
                      !.payloads = <<displayText(display.isComplete, display.newText)>>,
                      !.pc = "edit_md"]
    /\ UNCHANGED nonDisplayVars

\* lines 185-190: the Markdown edit is answered; after a rejection the edit
\* without markup is issued
MarkdownEditAnswered(ok) ==
    /\ display.pc = "edit_md"
    /\ display' = IF ok THEN [display EXCEPT !.pc = "true"]
                  ELSE [display EXCEPT
                          !.payloads = Append(@, StripMarkup(display.payloads[1])),
                          !.pc = "edit_plain"]
    /\ UNCHANGED nonDisplayVars

\* lines 191-195: the edit without markup is answered
PlainEditAnswered(ok) ==
    /\ display.pc = "edit_plain"
    /\ display' = [display EXCEPT !.pc = IF ok THEN "true" ELSE "false"]
    /\ UNCHANGED nonDisplayVars

----------------------------------------------------------------------------
(* The middleware in front of the handlers: whitelist and rate limiter *)

\* the users that send updates; NoUser is an update without ctx.from
UserIds == {"u1", "u2"}
NoUser == "none"

\* new Map(), part_004 line 10
EmptyTable == [u \in {} |-> [count |-> 0, windowStart |-> 0]]

\* part_004 line 20 and line 49: the window of an entry is over
Expired(entry, t) == t - entry.windowStart > WindowMs

\* part_004 lines 15-24: the sweep deletes the entries whose window is over
cleanupExpiredEntries(table, t) ==
    [u \in { v \in DOMAIN table : ~Expired(table[v], t) } |-> table[u]]

\* rateLimitMiddleware rejecting only above the maximum (count > max)
rateLimitMiddlewareOffByOne(table, userId, t) ==
    IF userId = NoUser
    THEN [table |-> table, next |-> TRUE]
    ELSE IF userId \in DOMAIN table
    THEN LET entry == table[userId]
         IN  IF Expired(entry, t)
             THEN [table |-> (userId :> [count |-> 1, windowStart |-> t]) @@ table,
                   next |-> TRUE]
             ELSE IF entry.count > RateLimitMax
             THEN [table |-> table, next |-> FALSE]
             ELSE [table |-> (userId :> [entry EXCEPT !.count = @ + 1]) @@ table,
                   next |-> TRUE]
    ELSE [table |-> (userId :> [count |-> 1, windowStart |-> t]) @@ table,
          next |-> TRUE]

\* part_004 lines 32-75: the table after the request, and whether next() ran
rateLimitMiddleware(table, userId, t) ==
    IF userId = NoUser
    THEN [table |-> table, next |-> TRUE]
    ELSE IF userId \in DOMAIN table
    THEN LET entry == table[userId]
         IN  IF Expired(entry, t)
             THEN [table |-> (userId :> [count |-> 1, windowStart |-> t]) @@ table,
                   next |-> TRUE]
             ELSE IF entry.count >= RateLimitMax
             THEN [table |-> table, next |-> FALSE]
             ELSE [table |-> (userId :> [entry EXCEPT !.count = @ + 1]) @@ table,
                   next |-> TRUE]
    ELSE [table |-> (userId :> [count |-> 1, windowStart |-> t]) @@ table,
          next |-> TRUE]

\* authMiddleware letting updates without a user identity through
authMiddlewareAnonymousPasses(allowed, userId) ==
    \/ allowed = {}
    \/ userId = NoUser
    \/ userId \in allowed

\* auth.ts lines 7-31: whether next() ran
authMiddleware(allowed, userId) ==
    \/ allowed = {}
    \/ (userId # NoUser /\ userId \in allowed)

GateIdle == gate = [now |-> 0, allowed |-> {}, table |-> EmptyTable, log |-> <<>>]

\* time passes
Advance ==
    /\ gate' = [gate EXCEPT !.now = @ + 1]
    /\ UNCHANGED nonGateVars

\* Cleanup deleting every entry, expired or not
CleanupClearsAll ==
    /\ gate' = [gate EXCEPT !.table = EmptyTable]
    /\ UNCHANGED nonGateVars

\* part_004 line 27: the timer runs the sweep
Cleanup ==
    /\ gate' = [gate EXCEPT !.table = cleanupExpiredEntries(gate.table, gate.now)]
    /\ UNCHANGED nonGateVars

\* bot.ts lines 42-60: an update runs through authMiddleware, then
\* rateLimitMiddleware, then its handler; each stage runs only when the
\* stage before it called next()
Receive(userId) ==
    /\ LET authorized == authMiddleware(gate.allowed, userId)
           limited == rateLimitMiddleware(gate.table, userId, gate.now)
       IN  gate' = [gate EXCEPT
               !.table = IF authorized THEN limited.table ELSE @,
               !.log = Append(@, [user |-> userId, time |-> gate.now,
                                  auth |-> authorized,
                                  found |-> authorized /\ userId \in DOMAIN gate.table,
                                  limiter |-> IF ~authorized THEN "skipped"
                                              ELSE IF limited.next THEN "passed"
                                              ELSE "rejected",
                                  handled |-> authorized /\ limited.next])]
    /\ UNCHANGED nonGateVars

----------------------------------------------------------------------------
(* Specifications *)

NextChunk == ChunkCall \/ ChunkSplit \/ ChunkLast

ChunkInit == ChunkEntry /\ StreamIdle /\ ReaderIdle /\ SessionIdle /\ DisplayIdle
    /\ GateIdle

SpecChunk == ChunkInit /\ [][NextChunk]_vars

\* the loop is synchronous code: it keeps running until it returns
SpecChunkFair == SpecChunk /\ WF_vars(NextChunk)

StreamInit == StreamIdle /\ ChunkIdle /\ ReaderIdle /\ SessionIdle /\ DisplayIdle
    /\ GateIdle

\* create() and the synchronous part of update(): which calls issue an edit
\* is decided before the surface answers any of them
NextThrottle ==
    \/ now < MaxTime /\ Tick
    \/ \E hasChat \in BOOLEAN, ok \in BOOLEAN : Create(hasChat, ok)
    \/ /\ Len(calls) < MaxUpdates
       /\ \E newText \in UpdateTexts, forceUpdate \in BOOLEAN :
              Update(newText, forceUpdate)

SpecThrottle == StreamInit /\ [][NextThrottle]_vars

\* a whole turn: create, updates, finalization, the multi-message send path
NextStream ==
    \/ now < MaxTurnTime /\ Tick
    \/ \E hasChat \in BOOLEAN, ok \in BOOLEAN : Create(hasChat, ok)
    \/ /\ Len(calls) < MaxTurnUpdates
       /\ \E newText \in UpdateTexts, forceUpdate \in BOOLEAN :
              Update(newText, forceUpdate)
    \/ \E p \in pending, ok \in BOOLEAN : UpdateAnswered(p, ok)
    \/ \E ft \in FinalTexts : Finalize(ft)
    \/ \E ok \in BOOLEAN : FinalEditMarkdown(ok)
    \/ \E ok \in BOOLEAN : FinalEditPlain(ok)
    \/ \E ok \in BOOLEAN : FinalDelete(ok)
    \/ \E ok \in BOOLEAN : SendMarkdown(ok)
    \/ \E ok \in BOOLEAN : SendPlain(ok)
    \/ \E ok \in BOOLEAN : SendError(ok)
    \/ Pace

SpecStream == StreamInit /\ [][NextStream]_vars

\* one call of executeClaudeQueryStreaming: the process writes, the
\* handlers run, the process ends
NextReader ==
    \/ /\ Len(lines) < MaxLines
       /\ \E line \in ReaderLines : Emit(line)
    \/ \E n \in 1..Len(pipe) : StdoutData(n)
    \/ /\ Len(reader.stderrOutput) < 2 * MaxStderr
       /\ \E data \in StderrChunks : StderrData(data)
    \/ \E code \in ExitCodes(proc) : ProcClose(code)
    \/ ProcError

ReaderInit == ReaderSpawned /\ ChunkIdle /\ StreamIdle /\ SessionIdle /\ DisplayIdle
    /\ GateIdle

SpecReader == ReaderInit /\ [][NextReader]_vars

\* one call of executeClaudeQueryStreaming on streams that carry result events
NextResult ==
    \/ /\ Len(lines) < MaxLines
       /\ \E line \in ResultLines : Emit(line)
    \/ \E n \in 1..Len(pipe) : StdoutData(n)
    \/ /\ Len(reader.stderrOutput) < 2 * MaxStderr
       /\ \E data \in StderrChunks : StderrData(data)
    \/ \E code \in ExitCodes(proc) : ProcClose(code)
    \/ ProcError

SpecResult == ReaderInit /\ [][NextResult]_vars

\* one call of executeClaudeQueryStreaming on a stream of tool_use blocks
NextTools ==
    \/ /\ Len(lines) < MaxToolLines
       /\ \E line \in ToolLines : Emit(line)
    \/ \E n \in 1..Len(pipe) : StdoutData(n)

SpecTools == ReaderInit /\ [][NextTools]_vars

\* the handlers of one user, one update after the other
NextSession ==
    \/ /\ Len(journal) < MaxJournal
       /\ \E kind \in HandlerKinds : TurnBegin(kind)
    \/ \E result \in TurnResults : TurnEnd(result)
    \/ /\ Len(journal) < MaxJournal
       /\ \E ok \in BOOLEAN : Clear(ok)

SessionInit == SessionStart /\ ChunkIdle /\ StreamIdle /\ ReaderIdle /\ DisplayIdle
    /\ GateIdle

SpecSession == SessionInit /\ [][NextSession]_vars

\* the handlers of one user on a file system that may reject a write
NextPersist ==
    \/ /\ Len(journal) < MaxJournal
       /\ \E kind \in HandlerKinds : TurnBegin(kind)
    \/ \E result \in TurnResults : TurnEnd(result)
    \/ \E result \in TurnResults : TurnEndSaveFailed(result)
    \/ /\ Len(journal) < MaxJournal
       /\ \E ok \in BOOLEAN : Clear(ok)

SpecPersist == SessionInit /\ [][NextPersist]_vars

\* the rendering and the edits of one update() call
NextDisplay ==
    \/ RenderEdit
    \/ \E ok \in BOOLEAN : MarkdownEditAnswered(ok)
    \/ \E ok \in BOOLEAN : PlainEditAnswered(ok)

DisplayInit == DisplayEntry /\ ChunkIdle /\ StreamIdle /\ ReaderIdle /\ SessionIdle
    /\ GateIdle

SpecDisplay == DisplayInit /\ [][NextDisplay]_vars

\* the updates of two users and of senders without identity, the clock and
\* the sweep timer
NextGate ==
    \/ gate.now < MaxClock /\ Advance
    \/ Cleanup
    \/ /\ Len(gate.log) < MaxRequests
       /\ \E userId \in UserIds \cup {NoUser} : Receive(userId)

\* the bot is started with its configuration: any whitelist, also the empty one
GateInit ==
    /\ \E allowed \in SUBSET UserIds :
           gate = [now |-> 0, allowed |-> allowed, table |-> EmptyTable, log |-> <<>>]
    /\ ChunkIdle /\ StreamIdle /\ ReaderIdle /\ SessionIdle /\ DisplayIdle

SpecGate == GateInit /\ [][NextGate]_vars

----------------------------------------------------------------------------
(* Claims about chunkMessage *)

LongInput == Len(text) > TELEGRAM_MAX_LENGTH

\* C1: for every input longer than the limit, the chunks chunkMessage
\* returns, concatenated in order, are the input text exactly.
C1_ConcatReproducesText ==
    (cpc = "returned" /\ LongInput) => Concat(chunks) = text

\* a long input cut into three chunks, the first at a separator
C1_Witness ==
    /\ cpc = "returned"
    /\ LongInput
    /\ Len(chunks) >= 3
    /\ Len(chunks[1]) < TELEGRAM_MAX_LENGTH
    /\ Concat(chunks) = text

ChunkSizesOK ==
    LongInput =>
        /\ \A i \in 1..Len(chunks) :
               1 <= Len(chunks[i]) /\ Len(chunks[i]) <= TELEGRAM_MAX_LENGTH
        /\ \A i \in 1..Len(splits) : splits[i] > 0

\* C2: for every input longer than the limit every chunk has between 1 and
\* TELEGRAM_MAX_LENGTH characters, every split point is strictly positive,
\* and the loop terminates (chunkMessage returns).
C2_ChunkSizesAndTermination ==
    [](ChunkSizesOK) /\ <>(cpc = "returned")

\* a long input returned as three chunks, cut once at a separator and once
\* at the hard limit
C2_Witness ==
    /\ cpc = "returned"
    /\ LongInput
    /\ Len(chunks) >= 3
    /\ \E i \in 1..Len(splits) : splits[i] < TELEGRAM_MAX_LENGTH
    /\ \E i \in 1..Len(splits) : splits[i] = TELEGRAM_MAX_LENGTH

----------------------------------------------------------------------------
(* Claims about the delivery throttler *)

\* what finalize (and the send path it enters) has asked of the surface
FinalizeOps == SelectSeq(ops, LAMBDA o : o.by = "finalize")
SendOps == SelectSeq(ops, LAMBDA o : o.by = "finalize" /\ o.op = "send")
DeleteOps == SelectSeq(ops, LAMBDA o : o.by = "finalize" /\ o.op = "delete")
\* the new messages the surface accepted
SentMessages == SelectSeq(SendOps, LAMBDA o : o.ok)
\* the first attempt of every chunk (the only sends in Markdown mode)
MarkdownSends == SelectSeq(SendOps, LAMBDA o : o.md)

TextsOfOps(os) == [i \in 1..Len(os) |-> os[i].text]

FinalChunks == chunkMessage(finalText)

\* the step in which the surface accepts finalize's in-place edit
FinalEditAccepted == fpc \in {"edit_md", "edit_plain"} /\ fpc' = "done"

\* C3: when the final text fits in one chunk and the surface accepts the
\* in-place edit, the draft's content becomes exactly the final text, and
\* finalize has sent no new message and deleted nothing.
C3_SingleChunkEditsInPlace ==
    [][FinalEditAccepted =>
          /\ draft'.text = finalText
          /\ ~draft'.deleted
          /\ SendOps' = <<>>
          /\ DeleteOps' = <<>>]_vars

\* a draft that showed streamed text with the cursor, then edited in place
C3_Witness ==
    /\ fpc = "done"
    /\ Len(FinalChunks) = 1
    /\ \E i \in 1..Len(calls) : calls[i].ret = "true"
    /\ FinalizeOps # <<>>
    /\ FinalizeOps[Len(FinalizeOps)].op = "edit"
    /\ FinalizeOps[Len(FinalizeOps)].ok
    /\ draft.text = finalText
    /\ pending = {}

\* the annotated message of part k (1-based) of n parts, written out
AnnotatedPart(cs, k) ==
    IF k = 1 THEN cs[1] \o ContinuedSuffix
    ELSE IF k < Len(cs)
         THEN PartPrefix(ToString(k)) \o cs[k] \o ContinuedSuffix
         ELSE PartPrefix(ToString(k)) \o cs[k]

AnnotatedParts(cs) == [k \in 1..Len(cs) |-> AnnotatedPart(cs, k)]

MultiChunk == fpc \notin {"idle", "nochat", "streaming"} /\ Len(FinalChunks) > 1

\* C4 as stated: finalization of an N > 1 chunk text attempts the
\* delete first and then sends exactly N new messages, in chunk order, each
\* with its part / continued annotations.
C4_AsStated ==
    (MultiChunk /\ fpc = "done") =>
        /\ FinalizeOps[1].op = "delete"
        /\ TextsOfOps(SentMessages) = AnnotatedParts(FinalChunks)

\* C4 amended: the delete is attempted first; the first attempt for every
\* chunk, in chunk order, is the annotated message in Markdown mode; and when
\* the surface accepts every one of them, exactly N new messages are sent,
\* in chunk order, with those annotations.
C4_MultiChunkDelivery ==
    LET parts == FinalChunks
        requests == FinalizeOps
        sends == SendOps
        first == MarkdownSends
    IN  (fpc \notin {"idle", "nochat", "streaming"} /\ Len(parts) > 1) =>
        /\ requests # <<>> => requests[1].op = "delete"
        /\ Len(DeleteOps) <= 1
        /\ Len(first) <= Len(parts)
        /\ \A k \in 1..Len(first) :
               first[k].text = AnnotatedPart(parts, k)
        /\ (fpc = "done" /\ \A k \in 1..Len(sends) : sends[k].ok) =>
               TextsOfOps(SentMessages) = AnnotatedParts(parts)

\* three parts delivered: first, middle and last annotation all occur
C4_Witness ==
    /\ MultiChunk
    /\ fpc = "done"
    /\ Len(FinalChunks) = 3
    /\ \A k \in 1..Len(SendOps) : SendOps[k].ok
    /\ Len(SentMessages) = 3
    /\ FinalizeOps[1].op = "delete"

\* C5 as stated: of two unforced update() calls with different text less
\* than the throttle interval apart, the first performs an edit and the
\* second does not; a third call once the interval has elapsed performs an
\* edit; for any handle, also when the first call directly follows create().
C5_AsStated ==
    /\ (Len(calls) >= 2
        /\ ~calls[1].force /\ ~calls[2].force
        /\ calls[1].text # calls[2].text
        /\ calls[2].time - calls[1].time < STREAMING_UPDATE_INTERVAL_MS)
       => (calls[1].edited /\ ~calls[2].edited)
    /\ (Len(calls) >= 3
        /\ ~calls[1].force /\ ~calls[2].force /\ ~calls[3].force
        /\ calls[1].text # calls[2].text /\ calls[3].text # calls[1].text
        /\ calls[2].time - calls[1].time < STREAMING_UPDATE_INTERVAL_MS
        /\ calls[3].time - calls[1].time >= STREAMING_UPDATE_INTERVAL_MS)
       => calls[3].edited

\* the edit before call i: the last earlier call that issued one, or 0
PrevEdit(i) ==
    LET earlier == { j \in 1..(i - 1) : calls[j].edited }
    IN  IF earlier = {} THEN 0 ELSE CHOOSE j \in earlier : \A k \in earlier : k <= j

\* C6: update() issues an edit only if it is forced or at least the
\* throttle interval has elapsed since the previous edit, and only if the
\* text differs from the text of the previous edit; so any two edits of
\* unforced updates are at least the interval apart.
C6_ThrottleRule ==
    /\ \A i \in 1..Len(calls) :
         (calls[i].edited /\ PrevEdit(i) # 0) =>
            /\ \/ calls[i].force
               \/ calls[i].time - calls[PrevEdit(i)].time
                      >= STREAMING_UPDATE_INTERVAL_MS
            /\ calls[i].text # calls[PrevEdit(i)].text
    /\ \A i, j \in 1..Len(calls) :
         (i < j /\ calls[i].edited /\ calls[j].edited
                /\ ~calls[i].force /\ ~calls[j].force) =>
            calls[j].time - calls[i].time >= STREAMING_UPDATE_INTERVAL_MS

\* an unforced edit, a forced edit inside its window, a later unforced edit
C6_Witness ==
    /\ Len(calls) = 3
    /\ calls[1].edited /\ ~calls[1].force
    /\ calls[2].edited /\ calls[2].force
    /\ calls[2].time - calls[1].time < STREAMING_UPDATE_INTERVAL_MS
    /\ calls[3].edited /\ ~calls[3].force

----------------------------------------------------------------------------
(* Claims about the event stream reader *)

Log == reader.log

\* the tool_use / tool_result entries before entry i of the log
ToolMarksBefore(i) ==
    { j \in 1..(i - 1) : Log[j].k \in {"tool_use", "tool_result"} }

\* whether, when entry i was logged, a tool_use had been read that no
\* tool_result had followed yet
ToolWindowOpenAt(i) ==
    /\ ToolMarksBefore(i) # {}
    /\ Log[CHOOSE j \in ToolMarksBefore(i) :
               \A k \in ToolMarksBefore(i) : k <= j].k = "tool_use"

\* C7: after a tool_use block has been read and before a tool_result is,
\* onTextChunk is not invoked, whatever text blocks arrive.
C7_NoChunkInToolWindow ==
    \A i \in 1..Len(Log) : Log[i].k = "chunk" => ~ToolWindowOpenAt(i)

\* a text longer than everything accumulated arrived inside a tool window,
\* the window has been closed again, and the text was never surfaced
C7_Witness ==
    \E i, j \in 1..Len(Log) :
        /\ i < j
        /\ Log[i].k = "text"
        /\ ToolWindowOpenAt(i)
        /\ Len(Log[i].v) > Len(reader.accumulatedText)
        /\ Log[j].k = "tool_result"

\* C8 as stated: a text that arrived inside a tool window is part of the
\* accumulated answer, and has been surfaced, once the tool_result that
\* closes the window has been read.
C8_AsStated ==
    \A i, j \in 1..Len(Log) :
        (i < j /\ Log[i].k = "text" /\ ToolWindowOpenAt(i)
               /\ Log[j].k = "tool_result")
        => /\ Len(reader.accumulatedText) >= Len(Log[i].v)
           /\ \E m \in 1..Len(Log) :
                  Log[m].k = "chunk" /\ Len(Log[m].v) >= Len(Log[i].v)

EntriesOf(k) == SelectSeq(Log, LAMBDA en : en.k = k)

TextsSeen == EntriesOf("text")
ChunkCalls == EntriesOf("chunk")

NonDecreasing(es) ==
    \A i \in 1..(Len(es) - 1) : Len(es[i].v) <= Len(es[i + 1].v)

\* C9: when the text blocks read so far have non-decreasing lengths and no
\* tool_use block has been read, the accumulated text is a longest text
\* block read, and the last onTextChunk call carried it.
C9_LongestTextAccumulated ==
    (EntriesOf("tool_use") = <<>> /\ NonDecreasing(TextsSeen) /\ TextsSeen # <<>>)
    => /\ \E i \in 1..Len(TextsSeen) : TextsSeen[i].v = reader.accumulatedText
       /\ \A i \in 1..Len(TextsSeen) :
              Len(TextsSeen[i].v) <= Len(reader.accumulatedText)
       /\ ChunkCalls # <<>>
       /\ ChunkCalls[Len(ChunkCalls)].v = reader.accumulatedText

\* three text blocks of lengths 1, 2, 2 read, the last two different
C9_Witness ==
    /\ EntriesOf("tool_use") = <<>>
    /\ Len(TextsSeen) = 3
    /\ NonDecreasing(TextsSeen)
    /\ Len(TextsSeen[1].v) < Len(TextsSeen[2].v)
    /\ TextsSeen[2].v # TextsSeen[3].v
    /\ reader.accumulatedText = TextsSeen[2].v

RECURSIVE Bytes(_)
\* the whole stdout stream of the lines written
Bytes(ls) == IF ls = <<>> THEN <<>> ELSE Head(ls) \o <<Newline>> \o Bytes(Tail(ls))

\* C10 as stated: once every byte written has been delivered, what the
\* reader has read and done is what it reads and does when the whole stream
\* arrives in one delivery, however the deliveries were cut.
C10_AsStated ==
    pipe = <<>> =>
        [reader EXCEPT !.stderrOutput = <<>>] = HandleData(ReaderStart, Bytes(lines))

----------------------------------------------------------------------------
(* Claims about result events and the resolution of the call *)

ResultEntries == EntriesOf("result")

\* the "close" handler resolved the call (the process had been started)
ResolvedByClose == notified # <<>> /\ notified[1].ev = "close"

\* C11 as stated: once a result event has been processed, later lines invoke
\* no callback (onTextChunk, onProgress) and do not change the result the
\* call resolves with.
C11_AsStated ==
    \A i \in 1..Len(Log) :
        Log[i].k = "result" =>
            /\ \A j \in (i + 1)..Len(Log) : Log[j].k \notin {"chunk", "progress"}
            /\ reader.lastResult = Log[i].v.recorded
            /\ resolved # <<>> => PromiseValue = Log[i].v.recorded

\* the process was started, has exited with `code`, and no result event had
\* been read
ClosedWithoutResult(code) ==
    /\ ResolvedByClose
    /\ notified[1].code = code
    /\ ~reader.lastResult.set

\* C12 as stated: exit code 0 without a result event resolves with success
\* and output equal to the accumulated text, the empty one included.
C12_AsStated ==
    ClosedWithoutResult(0) =>
        /\ PromiseValue.success
        /\ PromiseValue.output = reader.accumulatedText

\* C12 amended: exit code 0 without a result event resolves with success,
\* the captured init token, and output equal to the accumulated text when
\* there is some, and to "No response received" when nothing was accumulated.
C12_ExitZeroWithoutResult ==
    ClosedWithoutResult(0) =>
        /\ PromiseValue.success
        /\ PromiseValue.error = NoText
        /\ PromiseValue.sessionId = reader.currentSessionId
        /\ reader.accumulatedText # NoText =>
               PromiseValue.output = reader.accumulatedText
        /\ reader.accumulatedText = NoText =>
               PromiseValue.output = <<"No response received">>

\* a stream with an init event and a text but no result event, then exit 0
C12_Witness ==
    /\ ClosedWithoutResult(0)
    /\ reader.accumulatedText = <<"a">>
    /\ reader.currentSessionId = <<"s1">>
    /\ PromiseValue.output = <<"a">>

\* what the last result event read has recorded, and that event
LastRecorded == ResultEntries[Len(ResultEntries)].v.recorded
LastResultEvent == ResultEntries[Len(ResultEntries)].v.event

\* the call was resolved by "close" after at least one result event was read
ResolvedWithResult == ResolvedByClose /\ ResultEntries # <<>>

C14_NonZeroExitWithoutResult ==
    \A code \in ExitCodes("running") \ {0} :
        ClosedWithoutResult(code) =>
            /\ ~PromiseValue.success
            /\ PromiseValue.output = reader.accumulatedText
            /\ reader.stderrOutput # <<>> =>
                   /\ PromiseValue.error \o <<NL>> = reader.stderrOutput
                   /\ PromiseValue.error # <<>>
            /\ reader.stderrOutput = <<>> =>
                   PromiseValue.error = <<"Claude exited with code ", ToString(code)>>

\* the process wrote "E" to stderr, emitted no result event and exited with 1
C14_Witness ==
    /\ ClosedWithoutResult(1)
    /\ reader.stderrOutput = <<"E", NL>>
    /\ PromiseValue.error = <<"E">>
    /\ ~PromiseValue.success

\* the process could not be started: its "error" event was delivered
FailedToStart == \E i \in 1..Len(notified) : notified[i].ev = "error"

RECURSIVE IndexOfResult(_, _)
IndexOfResult(i, from) ==
    IF Log[from].k = "result"
    THEN (IF i = 1 THEN from ELSE IndexOfResult(i - 1, from + 1))
    ELSE IndexOfResult(i, from + 1)

\* the value of the last entry of kind k before position n of the log, or
\* NoText: the accumulated text ("chunk") and the init token ("init") the
\* reader held when entry n was logged
LastBefore(k, n) ==
    LET earlier == { j \in 1..(n - 1) : Log[j].k = k }
    IN  IF earlier = {} THEN NoText
        ELSE Log[CHOOSE j \in earlier : \A m \in earlier : m <= j].v

\* C16: a successful result event records as output its own final text when
\* it has one, and the text accumulated so far only when it has none; and
\* the call resolves with what the (last) result event recorded.
C16_ResultTextPreferred ==
    /\ \A i \in 1..Len(ResultEntries) :
          LET event == ResultEntries[i].v.event
              rec == ResultEntries[i].v.recorded
          IN  ~event.is_error =>
                /\ rec.success
                /\ event.result # NoText => rec.output = event.result
                /\ event.result = NoText =>
                       rec.output = LastBefore("chunk", IndexOfResult(i, 1))
    /\ (ResolvedWithResult /\ ~LastResultEvent.is_error) =>
          /\ PromiseValue = LastRecorded
          /\ PromiseValue.success

\* text "a" was accumulated, then a successful result event with the final
\* text "ok" was read, and the call has resolved with "ok"
C16_Witness ==
    /\ ResolvedWithResult
    /\ ~LastResultEvent.is_error
    /\ reader.accumulatedText = <<"a">>
    /\ LastResultEvent.result = <<"o", "k">>
    /\ PromiseValue.output = <<"o", "k">>

\* C17: the session token a result event records is its own token when it
\* carries one, and otherwise the token captured from the init event; and
\* the call resolves with what the (last) result event recorded.
C17_ResultTokenPreferred ==
    /\ \A i \in 1..Len(ResultEntries) :
          LET event == ResultEntries[i].v.event
              rec == ResultEntries[i].v.recorded
          IN  /\ event.session_id # NoText => rec.sessionId = event.session_id
              /\ event.session_id = NoText =>
                     rec.sessionId = LastBefore("init", IndexOfResult(i, 1))
    /\ ResolvedWithResult => PromiseValue.sessionId = LastRecorded.sessionId

\* the init event's token "s1" was captured, the result event carried "s2",
\* and the call has resolved with "s2"
C17_Witness ==
    /\ ResolvedWithResult
    /\ reader.currentSessionId = <<"s1">>
    /\ LastResultEvent.session_id = <<"s2">>
    /\ PromiseValue.sessionId = <<"s2">>

----------------------------------------------------------------------------
(* Claims about the session token *)

LastEntry == journal[Len(journal)]

\* C18 as stated: after a turn of any handler whose executor result carries
\* a session token, the stored token of the user is that token, and the next
\* turn is started with --resume on it.
C18_AsStated ==
    /\ (journal # <<>> /\ LastEntry.op = "turn"
            /\ LastEntry.result.sessionId # NoText) =>
          getSessionId(store) = LastEntry.result.sessionId
    /\ \A i \in 1..(Len(journal) - 1) :
          (journal[i].op = "turn" /\ journal[i].result.sessionId # NoText
               /\ journal[i + 1].op = "turn") =>
             journal[i + 1].args =
                 ResumeArgs(journal[i].result.sessionId)

\* a successful /clear after which no handler has saved a token
ClearedAt(i) ==
    /\ journal[i].op = "clear"
    /\ journal[i].ok
    /\ \A j \in (i + 1)..Len(journal) : journal[j].saved = NoText

\* C19: after a /clear that removed the user's directory, and until a later
\* turn saves a token, getSessionId returns null, every turn is started
\* without a --resume argument, and so is the turn in progress.
C19_ClearDestroysSession ==
    \A i \in 1..Len(journal) :
        ClearedAt(i) =>
            /\ getSessionId(store) = NoText
            /\ store = NoFile
            /\ \A j \in (i + 1)..Len(journal) :
                   journal[j].op = "turn" =>
                       \A k \in 1..Len(journal[j].args) :
                           journal[j].args[k] # "--resume"
            /\ turn.active =>
                   \A k \in 1..Len(turn.args) : turn.args[k] # "--resume"

\* a turn saved a token, /clear removed it, and the next turn, started
\* without --resume, has completed without saving a token
C19_Witness ==
    /\ Len(journal) = 3
    /\ journal[1].op = "turn"
    /\ journal[1].saved # NoText
    /\ ClearedAt(2)
    /\ journal[3].op = "turn"
    /\ journal[3].args = ResumeArgs(NoText)
    /\ store = NoFile

----------------------------------------------------------------------------
(* Claims about the formatting fallback *)

\* what update() renders for newText while the response is not complete
Rendered(newText) == DisplayText([isComplete |-> FALSE], newText)

\* C20: an update() call that renders issues first a Markdown edit of the
\* display text; only when that is rejected, one more edit, of the display
\* text with the markup characters removed and without a parse mode; it
\* returns true when one of them is accepted and false when both are
\* rejected; no call issues more than two edits, and a throttled or
\* unchanged call issues none.
C20_FormattingFallback ==
    \A i \in 1..Len(calls) :
        LET tr == calls[i].tries
        IN  /\ Len(tr) <= 2
            /\ ~calls[i].edited => (tr = <<>> /\ calls[i].ret = "false")
            /\ Len(tr) >= 1 =>
                  /\ tr[1].md
                  /\ tr[1].text = Rendered(calls[i].text)
            /\ Len(tr) = 2 =>
                  /\ ~tr[1].ok
                  /\ ~tr[2].md
                  /\ tr[2].text = StripMarkup(tr[1].text)
            /\ calls[i].ret = "true" <=> (tr # <<>> /\ tr[Len(tr)].ok)
            /\ (calls[i].edited /\ calls[i].ret = "false") <=>
                   (Len(tr) = 2 /\ ~tr[2].ok)
            /\ calls[i].ret \in {"true", "false", "pending"}

\* a call whose Markdown edit was rejected and whose edit without markup,
\* of a text that had markup characters, was rejected as well
C20_Witness ==
    \E i \in 1..Len(calls) :
        /\ Len(calls[i].tries) = 2
        /\ calls[i].tries[2].text # calls[i].tries[1].text
        /\ ~calls[i].tries[2].ok
        /\ calls[i].ret = "false"

----------------------------------------------------------------------------
(* Claims about the fallbacks of finalization *)

SingleChunk == fpc \notin {"idle", "nochat", "streaming"} /\ Len(FinalChunks) = 1

\* both in-place edits of finalize were rejected
EditsRejected ==
    LET requests == FinalizeOps
    IN  /\ Len(requests) >= 2
        /\ requests[1].op = "edit" /\ ~requests[1].ok
        /\ requests[2].op = "edit" /\ ~requests[2].ok

\* C21: when the final text fits in one chunk and both in-place edits (with
\* Markdown, then without) are rejected, finalize enters the send path: its
\* next request is a new message carrying the final text in Markdown mode,
\* and after a rejection of that a new message carrying it without a parse
\* mode; nothing is deleted; when the surface accepts one of the two, exactly
\* one new message, holding the final text, has been sent.  The send path is
\* entered for a one-chunk text in no other case.
C21_EditFailureFallsBackToSend ==
    LET requests == FinalizeOps
        rejected == EditsRejected
    IN  SingleChunk =>
        /\ SendOps # <<>> => rejected
        /\ fpc \in {"send_md", "send_plain", "send_err", "delay"} => rejected
        /\ rejected =>
              /\ DeleteOps = <<>>
              /\ Len(requests) = 2 => (fpc = "send_md" /\ sendIdx = 0)
              /\ Len(requests) >= 3 =>
                     requests[3] = Op("finalize", "send", finalText, TRUE,
                                      requests[3].ok)
              /\ Len(requests) >= 4 =>
                     /\ ~requests[3].ok
                     /\ requests[4] = Op("finalize", "send", finalText, FALSE,
                                         requests[4].ok)
              /\ (\E k \in {3, 4} : k <= Len(requests) /\ requests[k].ok) =>
                     /\ fpc = "done"
                     /\ TextsOfOps(SentMessages) = <<finalText>>

\* both edits were rejected, the Markdown send too, and the final text was
\* delivered as a new message without a parse mode
C21_Witness ==
    /\ SingleChunk
    /\ EditsRejected
    /\ fpc = "done"
    /\ Len(SendOps) = 2
    /\ ~SendOps[2].md
    /\ TextsOfOps(SentMessages) = <<finalText>>

\* the delete request of finalize has been answered
DeleteAnswered == DeleteOps # <<>>

\* C22: in the finalization of a text of N > 1 chunks the delete of the
\* draft is the first request, and whatever the surface answers to it the
\* send path is entered at the first chunk: the first attempt for every
\* chunk, in chunk order, is its annotated message; when finalize returns, N
\* new messages have been sent, the k-th being chunk k (annotated or bare) or
\* the notice for part k; a rejected delete leaves the draft in place and
\* does not end finalize by an exception.
C22_DeleteFailureIgnored ==
    LET parts == FinalChunks
        requests == FinalizeOps
        deletes == DeleteOps
        sends == SendOps
        first == MarkdownSends
        sent == SentMessages
    IN  (fpc \notin {"idle", "nochat", "streaming"} /\ Len(parts) > 1) =>
        /\ fpc = "delete" <=> requests = <<>>
        /\ deletes # <<>> =>
              /\ requests[1].op = "delete"
              /\ Len(deletes) = 1
              /\ draft.deleted = deletes[1].ok
              /\ Len(requests) = 1 => (fpc = "send_md" /\ sendIdx = 0)
              /\ \A k \in 1..Len(first) :
                     first[k].text = AnnotatedPart(parts, k)
              /\ fpc = "done" =>
                     /\ Len(first) = Len(parts)
                     /\ Len(sent) = Len(parts)
                     /\ \A k \in 1..Len(sent) :
                            sent[k].text \in
                                {AnnotatedPart(parts, k), parts[k],
                                 ErrorNotice(ToString(k))}
              /\ fpc = "raised" =>
                     /\ sends # <<>>
                     /\ ~sends[Len(sends)].ok
                     /\ sends[Len(sends)].text[1] = "Error sending message part"

\* the delete of the draft was rejected, the draft is still there, and all
\* three chunks were sent as new messages
C22_Witness ==
    /\ MultiChunk
    /\ DeleteAnswered
    /\ ~DeleteOps[1].ok
    /\ ~draft.deleted
    /\ fpc = "done"
    /\ Len(FinalChunks) = 3
    /\ TextsOfOps(SentMessages) = AnnotatedParts(FinalChunks)

\* finalize, or the send path it entered, has ended: by a return or by an
\* exception
FinalizeEnded == FinalizeOps # <<>> /\ fpc \in {"done", "raised"}

\* C23 as stated: whatever the surface rejects, finalize and the send path
\* it enters never end by an exception, and once the send path has ended an
\* attempt has been made for every chunk.
C23_AsStated ==
    /\ FinalizeOps # <<>> => fpc # "raised"
    /\ (FinalizeEnded /\ SendOps # <<>>) =>
           Len(MarkdownSends) = Len(FinalChunks)

----------------------------------------------------------------------------
(* Claims about the pacing of the send path *)

\* the send path's log: every reply it has awaited and every pacing delay
SendPath == SelectSeq(ops, LAMBDA o : o.by = "finalize" /\ o.op \in {"send", "delay"})

Delays == SelectSeq(SendPath, LAMBDA o : o.op = "delay")

IsFirstAttempt(o) == o.op = "send" /\ o.md

\* C24: the send path works through the chunks one at a time.  Its first
\* request is the first attempt for chunk 1; a fallback attempt directly
\* follows the rejected attempt before it; a pacing delay directly follows
\* the accepted reply that ends a chunk and only when chunks remain; the first attempt for
\* the next chunk directly follows a pacing delay and nothing else does; so
\* exactly one delay lies between two successive chunks, and when the path
\* has returned its last entry is a reply, not a delay, and N - 1 delays
\* have been taken for N chunks.
C24_SequentialPacedDelivery ==
    LET path == SendPath
        delays == Len(Delays)
        parts == Len(FinalChunks)
    IN  path # <<>> =>
        /\ IsFirstAttempt(path[1])
        /\ \A i \in 2..Len(path) :
              /\ IsFirstAttempt(path[i]) <=> path[i - 1].op = "delay"
              /\ (path[i].op = "send" /\ ~path[i].md) =>
                     (path[i - 1].op = "send" /\ ~path[i - 1].ok)
              /\ path[i].op = "delay" =>
                     (path[i - 1].op = "send" /\ path[i - 1].ok)
        /\ delays <= parts - 1
        /\ Len(SelectSeq(path, IsFirstAttempt)) =
               delays + (IF path[Len(path)].op = "delay" THEN 0 ELSE 1)
        /\ sendIdx = delays
        /\ fpc = "delay" =>
              (path[Len(path)].op = "send" /\ sendIdx < parts - 1)
        /\ fpc = "done" =>
              /\ path[Len(path)].op = "send"
              /\ delays = parts - 1

\* three chunks delivered with two pacing delays, the second chunk after a
\* rejected Markdown attempt
C24_Witness ==
    /\ fpc = "done"
    /\ Len(FinalChunks) = 3
    /\ Len(Delays) = 2
    /\ Len(SendPath) = 6
    /\ ~SendPath[3].ok
    /\ SendPath[5].op = "delay"
    /\ SendPath[6].ok

----------------------------------------------------------------------------
(* Claims about the size of a rendered update *)

KeptTail == TelegramMaxLength - TailReserve

\* C25: for a candidate longer than the limit minus the reserved margin
\* (4096 - 50) the Markdown payload is the "streaming" indicator followed by
\* the last 3996 characters of the candidate, and then at most the cursor
\* marker; a candidate up to that length is shown whole; and every payload
\* update() issues, the cursor marker and the edit without markup included,
\* has at most 4096 characters.
C25_DisplayFitsLimit ==
    display.pc \notin {"idle", "render"} =>
        LET newText == display.newText
            md == display.payloads[1]
            body == IF Len(newText) > TelegramMaxLength - ReservedMargin
                    THEN StreamingPrefix
                         \o SubSeq(newText, Len(newText) - KeptTail + 1, Len(newText))
                    ELSE newText
        IN  /\ KeptTail = 3996
            /\ SubSeq(md, 1, Len(body)) = body
            /\ SubSeq(md, Len(body) + 1, Len(md)) \in {<<>>, <<SP, CURSOR>>}
            /\ SubSeq(md, Len(body) + 1, Len(md)) = <<SP, CURSOR>> <=>
                   (~display.isComplete /\ (body = <<>> \/ body[Len(body)] # "_"))
            /\ \A k \in 1..Len(display.payloads) :
                   Len(display.payloads[k]) <= TelegramMaxLength
            /\ Len(display.payloads) = 2 =>
                   display.payloads[2] = StripMarkup(md)

\* a candidate of twice the limit was rendered as the indicator, its last
\* 3996 characters and the cursor marker, and both edits were issued
C25_Witness ==
    /\ display.pc = "false"
    /\ Len(display.newText) = 2 * TelegramMaxLength
    /\ ~display.isComplete
    /\ Len(display.payloads) = 2
    /\ Len(display.payloads[1]) = Len(StreamingPrefix) + KeptTail + 2
    /\ display.payloads[1][Len(StreamingPrefix) + 1]
           = display.newText[Len(display.newText) - KeptTail + 1]

----------------------------------------------------------------------------
(* Claims about where chunkMessage cuts *)

\* the boundary after chunk i lies between the two code units of one character
CutsCharacter(i) ==
    /\ chunks[i][Len(chunks[i])] = HighSurrogate
    /\ chunks[i + 1][1] = LowSurrogate

\* C26 as stated: no boundary between two chunks chunkMessage returns lies
\* between the two code units of a surrogate pair.
C26_AsStated ==
    cpc = "returned" => \A i \in 1..(Len(chunks) - 1) : ~CutsCharacter(i)

RECURSIVE SumOf(_, _)
\* the sum of the first n entries of a sequence of numbers
SumOf(ns, n) == IF n = 0 THEN 0 ELSE ns[n] + SumOf(ns, n - 1)

\* `remaining` at the start of loop iteration k: the text without what the
\* earlier iterations cut off
RemainingAt(k) == SliceFrom(text, SumOf(splits, k - 1))

\* the indices of the double line-breaks that lie in the first
\* TELEGRAM_MAX_LENGTH characters of s and past the midpoint of that window
LateDoubleBreaks(s) ==
    { i \in 0..(TELEGRAM_MAX_LENGTH - 2) :
          /\ s[i + 1] = NL
          /\ s[i + 2] = NL
          /\ 2 * i > TELEGRAM_MAX_LENGTH }

\* C27: in every loop iteration whose window holds a double line-break past
\* the midpoint, the split point is the index just after the last such
\* double line-break, whatever line breaks or spaces follow it in the
\* window, and the chunk cut off ends with that double line-break.
C27_ParagraphBreakPreferred ==
    \A k \in 1..Len(splits) :
        LET late == LateDoubleBreaks(RemainingAt(k))
        IN  late # {} =>
              /\ splits[k] = 2 + CHOOSE i \in late : \A j \in late : j <= i
              /\ Len(chunks) >= k =>
                    /\ Len(chunks[k]) = splits[k]
                    /\ chunks[k][splits[k] - 1] = NL
                    /\ chunks[k][splits[k]] = NL

\* the first window held a double line-break past its midpoint and a
\* separator after it, and the text was cut just after the double line-break
C27_Witness ==
    /\ cpc = "returned"
    /\ Len(splits) >= 1
    /\ \E i \in LateDoubleBreaks(text) :
           /\ splits[1] = i + 2
           /\ \E j \in (i + 3)..TELEGRAM_MAX_LENGTH : text[j] \in Separators

\* C28: for every input of at most TELEGRAM_MAX_LENGTH characters, the empty
\* text included, chunkMessage returns exactly one chunk, equal to the input,
\* without entering its loop.
C28_ShortInputOneChunk ==
    (cpc = "returned" /\ Len(text) <= TELEGRAM_MAX_LENGTH) =>
        /\ Len(chunks) = 1
        /\ chunks[1] = text
        /\ splits = <<>>
        /\ remaining = <<>>

\* a text of exactly TELEGRAM_MAX_LENGTH characters, with separators in it,
\* returned as one chunk
C28_Witness ==
    /\ cpc = "returned"
    /\ Len(text) = TELEGRAM_MAX_LENGTH
    /\ \E i \in 1..Len(text) : text[i] \in Separators
    /\ chunks = <<text>>

----------------------------------------------------------------------------
(* Claims about lines that are no JSON and about tool_use blocks *)

\* the bytes the step hands to the stdout handler, cut into lines
DeliveredLines ==
    SplitLines(SubSeq(pipe, 1, Len(pipe) - Len(pipe')), <<>>)

\* C29: in every delivery the lines that do not parse as JSON leave no
\* trace: the reader's variables and the log of callbacks after the delivery
\* are what handling only the parsable lines of the delivery, in their
\* order, gives; a delivery without a parsable line changes nothing.
C29_JunkLinesDiscarded ==
    [][Len(pipe') < Len(pipe) =>
          LET parsable == SelectSeq(DeliveredLines, Parses)
          IN  /\ reader' = HandleLines(reader, parsable)
              /\ parsable = <<>> => reader' = reader]_vars

\* an init event, a line that is no JSON and a result event were written
\* and read: the token was captured and the result recorded
C29_Witness ==
    /\ Len(lines) = 3
    /\ Parses(lines[1]) /\ lines[1][1].e.type = "system"
    /\ lines[2] = JunkLine
    /\ Parses(lines[3]) /\ lines[3][1].e.type = "result"
    /\ pipe = <<>>
    /\ Len(Log) = 2
    /\ Log[1].k = "init"
    /\ Log[2].k = "result"
    /\ reader.lastResult.set

\* the template of each recognized tool, written out
ToolTemplate ==
    [Read |-> "Reading: ", Grep |-> "Searching for: ", Glob |-> "Finding files: ",
     Bash |-> "Running: ", Edit |-> "Editing: ", Write |-> "Writing: ",
     WebSearch |-> "Searching web: ", WebFetch |-> "Fetching: "]

\* the message a tool_use block is to be reported with
ExpectedProgress(block) ==
    LET name == IF block.name = NoText THEN "unknown" ELSE block.name[1]
    IN  IF name \in DOMAIN ToolTemplate /\ block.input[ToolField[name]] # NoText
        THEN LET value == block.input[ToolField[name]]
             IN  IF name = "Bash"
                 THEN <<ToolTemplate[name]>> \o SubSeq(value, 1, Min(50, Len(value)))
                          \o (IF Len(value) > 50 THEN <<"...">> ELSE <<>>)
                 ELSE <<ToolTemplate[name]>> \o value
        ELSE <<"Using ", name, "...">>

\* C30: every tool_use block read is followed at once by exactly one
\* onProgress call and no onProgress call has another origin; the message is
\* the tool's template with the value of its input field when the tool is
\* one of Read, Grep, Glob, Bash, Edit, Write, WebSearch, WebFetch and that
\* field is present, and "Using <name>..." for every other tool, for a
\* recognized tool without its field, and with the name "unknown" for a
\* block without a name.
C30_OneProgressPerToolUse ==
    /\ \A i \in 1..Len(Log) :
          /\ Log[i].k = "tool_use" =>
                /\ i < Len(Log)
                /\ Log[i + 1].k = "progress"
                /\ Log[i + 1].v = ExpectedProgress(Log[i].v)
          /\ Log[i].k = "progress" => (i > 1 /\ Log[i - 1].k = "tool_use")
    /\ Len(EntriesOf("progress")) = Len(EntriesOf("tool_use"))

\* a Glob block with its pattern and a tool the code does not know were
\* read and reported, each once
C30_Witness ==
    /\ Len(Log) = 4
    /\ Log[1].k = "tool_use" /\ Log[1].v.name = <<"Glob">>
    /\ Log[2].v = <<"Finding files: ", "v">>
    /\ Log[3].k = "tool_use" /\ Log[3].v.name = <<"Task">>
    /\ Log[4].v = <<"Using ", "Task", "...">>

----------------------------------------------------------------------------
(* C31: nothing replaces the final text once the final edit is accepted *)

\* the final edit of a single-chunk finalization has been accepted and
\* finalizeStreamingResponse has returned
FinalEditDone ==
    LET fin == FinalizeOps
    IN  /\ fpc = "done"
        /\ fin # <<>>
        /\ fin[Len(fin)].op = "edit"
        /\ fin[Len(fin)].ok

\* C31: once finalizeStreamingResponse has completed a single-chunk
\* finalization by an accepted edit, the draft message shows the final text,
\* and it keeps showing it: no edit requested by an earlier
\* updateStreamingResponse call is applied to the message afterwards.
C31_AsStated == FinalEditDone => draft.text = finalText

----------------------------------------------------------------------------
(* C32: the delivery state records accepted edits only *)

\* the update() calls whose edit the surface accepted
AcceptedCalls == SelectSeq(calls, LAMBDA c : c.ret = "true")

\* C32: while the turn streams and every edit has been answered, the
\* last-rendered text and the last-update timestamp of the delivery state
\* are those of the last update() call whose edit the surface accepted (the
\* empty text and the creation time, which is the start of the clock, when
\* there was none): an update whose attempts were all rejected leaves both
\* as they were, so the same text is not skipped as unchanged later.
C32_AsStated ==
    (fpc = "streaming" /\ pending = {}) =>
        LET acc == AcceptedCalls
        IN  IF acc = <<>>
            THEN state.currentText = <<>> /\ state.lastUpdateTime = 0
            ELSE /\ state.currentText = acc[Len(acc)].text
                 /\ state.lastUpdateTime = acc[Len(acc)].time

----------------------------------------------------------------------------
(* C33: the annotated messages of sendChunkedResponse and the limit *)

\* C33: every message sendChunkedResponse sends with Markdown, that is the
\* chunk together with its part and continuation annotations, is at most
\* TELEGRAM_MAX_LENGTH characters long.
C33_AsStated ==
    LET sends == MarkdownSends
    IN  \A i \in 1..Len(sends) : Len(sends[i].text) <= TELEGRAM_MAX_LENGTH

----------------------------------------------------------------------------
(* C34: several tool invocations open at once *)

\* the longest stream of SpecParallel
MaxParallelLines == 4

\* the lines of a turn that runs tools side by side: the announcement of a
\* tool, the result of one tool, and a text
ParallelLines ==
    { Stringify(e) : e \in {AssistantEvent(<<ReadTool>>),
                            UserEvent(<<ToolResultBlock>>),
                            AssistantEvent(<<TextBlock(<<"a">>)>>)} }

\* one call of executeClaudeQueryStreaming on a stream with parallel tools
NextParallel ==
    \/ /\ Len(lines) < MaxParallelLines
       /\ \E line \in ParallelLines : Emit(line)
    \/ \E n \in 1..Len(pipe) : StdoutData(n)

SpecParallel == ReaderInit /\ [][NextParallel]_vars

\* how many entries of kind k the log holds before entry i
CountBefore(k, i) == Cardinality({ j \in 1..(i - 1) : Log[j].k = k })

\* C34: text is never surfaced through onTextChunk while some announced
\* tool invocation has no tool_result yet: with several tool_use blocks
\* open, one tool_result does not reopen the surfacing of text; every one
\* of them must have completed first.
C34_AsStated ==
    \A i \in 1..Len(Log) :
        Log[i].k = "chunk" => CountBefore("tool_use", i) <= CountBefore("tool_result", i)

----------------------------------------------------------------------------
(* C35: the accumulated text grows, and is what was surfaced last *)

\* C35: every onTextChunk call carries a text strictly longer than the text
\* of every call before it, and the accumulated text is at every moment the
\* text of the last call (the empty text before the first one); so the
\* accumulated text never gets shorter.
C35_AccumulatedTextGrows ==
    LET cc == ChunkCalls
    IN  /\ \A i \in 1..(Len(cc) - 1) : Len(cc[i].v) < Len(cc[i + 1].v)
        /\ reader.accumulatedText = IF cc = <<>> THEN <<>> ELSE cc[Len(cc)].v

\* two texts were surfaced, and a text block read after the first of them
\* was not, being no longer than the accumulated text
C35_Witness ==
    /\ Len(ChunkCalls) = 2
    /\ \E i, j \in 1..Len(Log) :
           /\ i < j
           /\ Log[i].k = "chunk"
           /\ Log[j].k = "text"
           /\ Len(Log[j].v) <= Len(Log[i].v)
           /\ ~ToolWindowOpenAt(j)
           /\ (j = Len(Log) \/ Log[j + 1].k # "chunk")

----------------------------------------------------------------------------
(* C36: the call resolves once, on close or error only *)

\* C36: resolve() is called only in a step that reports "close" or "error",
\* once per report, so no stdout or stderr event resolves the call; as soon
\* as the process has reported its close or its failure to start, the call
\* is resolved; and the value the call resolved with never changes, whatever
\* is reported afterwards.
C36_ResolvesOnceOnCloseOrError ==
    /\ [][resolved' # resolved =>
              /\ Len(notified') = Len(notified) + 1
              /\ Len(resolved') = Len(resolved) + 1
              /\ notified'[Len(notified')].ev \in {"close", "error"}]_vars
    /\ [](notified # <<>> => resolved # <<>>)
    /\ [][resolved # <<>> => resolved' # <<>> /\ resolved'[1] = PromiseValue]_vars

\* the process failed to start: "error" resolved the call, "close" followed
\* and called resolve() with another value, and the call keeps the first
C36_Witness ==
    /\ Len(notified) = 2
    /\ notified[1].ev = "error"
    /\ notified[2].ev = "close"
    /\ Len(resolved) = 2
    /\ resolved[2] # resolved[1]
    /\ PromiseValue = resolved[1]

----------------------------------------------------------------------------
(* C37: a failed save of the session token and the response *)

\* C37: every turn that has ended delivered its response text through
\* finalizeStreamingResponse, whether or not the session token could be
\* saved.
C37_AsStated ==
    \A i \in 1..Len(journal) :
        journal[i].op = "turn" =>
            /\ journal[i].delivery.via = "finalize"
            /\ journal[i].delivery.text =
                   ResponseText(journal[i].kind, journal[i].result)

----------------------------------------------------------------------------
(* Claims about the middleware in front of the handlers *)

GateLog == gate.log

\* the updates of the user of entry i that reached the rate limiter before it
EarlierOf(i) ==
    { j \in 1..(i - 1) : GateLog[j].user = GateLog[i].user
                             /\ GateLog[j].limiter # "skipped" }

\* the requests of identified users that reached the rate limiter
Limited == { i \in 1..Len(GateLog) : GateLog[i].user # NoUser
                                         /\ GateLog[i].limiter # "skipped" }

RECURSIVE WindowOf(_)
\* the start of the window request i falls into: the time of the user's
\* first request, and from then on the time of the first request that comes
\* more than WindowMs after the start of the window before it
WindowOf(i) ==
    IF EarlierOf(i) = {} THEN GateLog[i].time
    ELSE LET prev == CHOOSE j \in EarlierOf(i) : \A k \in EarlierOf(i) : k <= j
             w == WindowOf(prev)
         IN  IF GateLog[i].time - w > WindowMs THEN GateLog[i].time ELSE w

RECURSIVE OwnTable(_, _)
\* the table of a limiter that has seen, of the first n updates, only those
\* of user u, and that is never swept
OwnTable(u, n) ==
    IF n = 0 THEN EmptyTable
    ELSE IF GateLog[n].user = u /\ GateLog[n].limiter # "skipped"
    THEN rateLimitMiddleware(OwnTable(u, n - 1), u, GateLog[n].time).table
    ELSE OwnTable(u, n - 1)

\* C38: of the requests of one user that fall into one window, from the
\* window's first request until WindowMs has passed, rateLimitMiddleware
\* passes at most RateLimitMax downstream; and every decision about a user's
\* request is the decision a limiter would take that had seen this user's
\* requests only.
C38_AtMostMaxPerWindow ==
    \A i \in Limited :
        /\ Cardinality({ j \in Limited :
               /\ GateLog[j].user = GateLog[i].user
               /\ GateLog[j].limiter = "passed"
               /\ WindowOf(j) = WindowOf(i) }) <= RateLimitMax
        /\ (GateLog[i].limiter = "passed") =
               rateLimitMiddleware(OwnTable(GateLog[i].user, i - 1),
                                   GateLog[i].user, GateLog[i].time).next

\* one user has used up the window and been rejected, and in the same tick
\* a request of the other user was passed
C38_Witness ==
    \E i, j \in Limited :
        /\ i < j
        /\ GateLog[i].limiter = "rejected"
        /\ GateLog[j].limiter = "passed"
        /\ GateLog[j].user # GateLog[i].user
        /\ GateLog[j].time = GateLog[i].time
        /\ Cardinality({ k \in Limited : GateLog[k].user = GateLog[i].user
                                             /\ GateLog[k].limiter = "passed" })
               = RateLimitMax

RECURSIVE UnsweptTable(_)
\* the table of a limiter that has seen the first n updates and is never swept
UnsweptTable(n) ==
    IF n = 0 THEN EmptyTable
    ELSE IF GateLog[n].limiter # "skipped"
    THEN rateLimitMiddleware(UnsweptTable(n - 1), GateLog[n].user,
                             GateLog[n].time).table
    ELSE UnsweptTable(n - 1)

\* C39: the sweep is invisible: whenever cleanupExpiredEntries has run
\* between the requests, every request is admitted or rejected as it would
\* have been had the sweep never run.
C39_SweepInvisible ==
    \A i \in 1..Len(GateLog) :
        GateLog[i].limiter # "skipped" =>
            (GateLog[i].limiter = "passed") =
                rateLimitMiddleware(UnsweptTable(i - 1), GateLog[i].user,
                                    GateLog[i].time).next

\* a user used up a window, the sweep deleted the entry after the window
\* was over, and the user's next request found no entry and was passed
C39_Witness ==
    \E i \in Limited :
        /\ ~GateLog[i].found
        /\ GateLog[i].limiter = "passed"
        /\ GateLog[i].user \in DOMAIN UnsweptTable(i - 1)
        /\ UnsweptTable(i - 1)[GateLog[i].user].count = RateLimitMax

\* C40: with a non-empty whitelist, an update of a user who is not on it,
\* or without a user identity, reaches neither the rate limiter nor a
\* handler, and the limiter's table never holds such a user; with an empty
\* whitelist every update is passed on to the rate limiter.
C40_WhitelistGuardsEverything ==
    /\ \A i \in 1..Len(GateLog) :
           IF gate.allowed # {} /\ GateLog[i].user \notin gate.allowed
           THEN /\ ~GateLog[i].auth
                /\ GateLog[i].limiter = "skipped"
                /\ ~GateLog[i].found
                /\ ~GateLog[i].handled
           ELSE /\ GateLog[i].auth
                /\ GateLog[i].limiter # "skipped"
    /\ gate.allowed # {} => DOMAIN gate.table \subseteq gate.allowed

\* with one user on the whitelist, an update of the other user and an
\* update without identity were turned away, and one of the listed user
\* reached its handler
C40_Witness ==
    /\ gate.allowed = {"u1"}
    /\ \E i, j, k \in 1..Len(GateLog) :
           /\ GateLog[i].user = "u2" /\ ~GateLog[i].handled
           /\ GateLog[j].user = NoUser /\ ~GateLog[j].handled
           /\ GateLog[k].user = "u1" /\ GateLog[k].handled

====
